---- MODULE Spec2Model ----
(***************************************************************************)
(* The durable request queue of the image editor: queue records kept in    *)
(* IndexedDB by CacheService, the two submission handlers of the prompt    *)
(* composer, and the select / refresh / delete handlers of                 *)
(* QueuedRequestsPanel, run as interleaved asynchronous flows.  Every      *)
(* `await` of the source ends one step of a flow.                          *)
(***************************************************************************)
EXTENDS Integers, Sequences, FiniteSets, TLC

\* ---------------------------------------------------------------- bounds
MaxRecords == 2
MaxSelects == 1
MaxLoads == 1
\* how many handlers may be suspended at an await at the same time
MaxInFlight == 2
\* how many actions the user takes (submit, select, refresh, delete)
MaxClicks == 4
\* how many records one namespace of the store holds
MaxStored == 3
\* the latest createdAt of a record saved through CacheService directly
MaxCreatedAt == 3
\* how many calls of CacheService a caller makes
MaxCalls == 4
\* how many jobs the remote service is asked to create
MaxJobs == 2
\* the largest variant count the user sets or a request body carries
MaxVariants == 3

\* ------------------------------------------------------------- constants
Ids == 1..MaxRecords
StoredIds == 1..MaxStored
AssetIds == {1}
\* the maxAge clearOldCache is called with, in ticks of the clock
MaxAges == {0}
Namespaces == {"queue", "video-queue"}
Selects == 1..MaxSelects
Tools == {"generate", "edit", "video"}
Prompts == {"p"}

\* "no record": what idb-keyval's get() gives for a missing key, after `|| null`.
\* The empty function, so that {...null, ...updates} is just updates.
NULL == <<>>

\* The payloads a finished batch job can hold: no image, or two.
ImageLists == {<<>>, <<"A", "B">>}
VideoPayloads == {"V"}
\* message of a remote operation error; "" when the remote gives no message
OpErrors == {"", "quota"}
\* the image files the user uploads
UploadedFiles == {"A"}
\* the image files the user uploads as references of an edit
ReferenceFiles == {"A", "B"}
\* handleFileUpload: `length < 10`, the room for reference images
MaxReferenceImages == 10
\* the video files the user uploads
UploadedVideos == {"S"}
\* messages of the errors a failed start-video call is rejected with
VideoSubmitErrors == {"Request failed"}

\* ------------------------------------------------------ record utilities
Has(r, f) == f \in DOMAIN r

\* JavaScript truthiness of an optional string field (undefined and "" are falsy)
TruthyStr(r, f) == Has(r, f) /\ r[f] # ""

\* JavaScript truthiness of `r.f?.length`
TruthyLen(r, f) == Has(r, f) /\ Len(r[f]) > 0

\* { ...existing, ...updates }
Merge(existing, updates) ==
  [f \in (DOMAIN existing) \cup (DOMAIN updates) |->
     IF f \in DOMAIN updates THEN updates[f] ELSE existing[f]]

CACHE_PREFIX == "nano-banana"
CACHE_VERSION == "1.0"

\* the parts of a type name, which its dashes separate
TypeParts(type) == IF type = "video-queue" THEN <<"video", "queue">> ELSE <<type>>

\* a key that names the image queue for every type
getKeyOfQueue(type, id) == <<CACHE_PREFIX, CACHE_VERSION, "queue", id>>

\* CacheService.getKey(type, id): `${CACHE_PREFIX}-${CACHE_VERSION}-${type}-${id}`,
\* as the sequence of the parts its dashes separate; the id is the last part
getKey(type, id) == <<CACHE_PREFIX, CACHE_VERSION>> \o TypeParts(type) \o <<id>>

\* key.includes(`${CACHE_PREFIX}-${CACHE_VERSION}-${type}-`): the parts of the
\* prefix stand side by side in the key, and a part follows them
Includes(key, type) ==
  LET needle == <<CACHE_PREFIX, CACHE_VERSION>> \o TypeParts(type)
  IN \E at \in 1..Len(key) :
       /\ at + Len(needle) <= Len(key)
       /\ SubSeq(key, at, at + Len(needle) - 1) = needle

\* the type a key was made for
TypeOfKey(k) == IF Len(k) = 5 THEN "video-queue" ELSE k[3]

\* idb-keyval set / del / get on the key-value store
IdbSet(st, k, v) == [x \in (DOMAIN st) \cup {k} |-> IF x = k THEN v ELSE st[x]]
IdbDel(st, k) == [x \in (DOMAIN st) \ {k} |-> st[x]]
IdbGet(st, k) == IF k \in DOMAIN st THEN st[k] ELSE NULL


\* JavaScript null for a string-valued slot of the UI store
Null == "null"

\* `data:image/png;base64,${data}` and `data:video/mp4;base64,${data}`
ImageUrl(data) == "data:image/png;base64," \o data
VideoUrl(data) == "data:video/mp4;base64," \o data

ImagePayloads == {"A", "B"}

\* canvasImage?.includes('base64,') ? canvasImage.split('base64,')[1] : undefined,
\* as a partial record: the field is absent when the canvas holds no image
OriginalImageOf(canvasImage) ==
  IF \E d \in ImagePayloads : ImageUrl(d) = canvasImage
  THEN [originalImage |-> CHOOSE d \in ImagePayloads : ImageUrl(d) = canvasImage]
  ELSE NULL

\* the name the remote service gives the job of record i
JobName(i) == "job" \o ToString(i)
JobOf(name) == CHOOSE i \in Ids : JobName(i) = name

\* ----------------------------------------------------------------- state
VARIABLES
  store,              \* IndexedDB: key -> queue record
  now,                \* the wall clock read by Date.now()
  remote,             \* the remote service's jobs and operations, by record id
  sub,                \* the submission flow of each record id
  queuedRequests,     \* QueuedRequestsPanel state: the in-memory list
  selectedRequestId,  \* QueuedRequestsPanel state
  isRefreshing,       \* QueuedRequestsPanel state
  sel,                \* running handleSelectRequest calls
  ref,                \* the running handleRefreshAll call
  loads,              \* running fire-and-forget loadQueuedRequests calls
  canvas,             \* useAppStore: canvasImage(s), canvasVideo, zoom, pan
  clicks,             \* how many actions the user has taken
  deleted,            \* history: keys whose delete has completed
  videoStartFrame,    \* useAppStore: the start frame of the video composer
  videoLastFrame,     \* useAppStore: its last frame
  videoSourceVideo,   \* useAppStore: its video to extend
  uploads,            \* the upload handlers suspended at `await blobToBase64(file)`
  assets,             \* IndexedDB: the cached assets, and as history those cleared
  variantCount,       \* useAppStore: how many variants a request asks for
  batches,            \* the remote service: the jobs and operations created, in order
  uploadedImages,     \* useAppStore: the reference images of the generate tool
  editReferenceImages,\* useAppStore: the reference images of the edit and mask tools
  brushStrokes,       \* useAppStore: the strokes painted on the canvas image
  fileReads,          \* the handleFileUpload calls suspended at `await blobToBase64(file)`
  requests,           \* history: the records built and the request bodies sent for them
  videoHook,          \* useVideoGenerationWithPolling: its state, queries and operation
  answers,            \* history: the answers of the proxy's operation endpoints
  selectedModel,      \* useAppStore: the image model of the composer
  resolutionTier,     \* useAppStore: the resolution tier of the composer
  pollErrors,         \* history: keys whose poll ended in the catch block (console.error)
  lastStatus          \* history: the status last persisted under each key

vars == <<store, now, remote, sub, queuedRequests, selectedRequestId,
          isRefreshing, sel, ref, loads, canvas, clicks, deleted, pollErrors,
          lastStatus, videoStartFrame, videoLastFrame, videoSourceVideo, uploads,
          assets, variantCount, batches, uploadedImages, editReferenceImages,
          brushStrokes, fileReads, requests, videoHook, answers, selectedModel,
          resolutionTier>>

composerVars == <<videoStartFrame, videoLastFrame, videoSourceVideo, uploads>>

referenceVars == <<uploadedImages, editReferenceImages, brushStrokes, fileReads, requests>>

\* the direct video generation, the proxy's answers and the model settings
studioVars == <<videoHook, answers, selectedModel, resolutionTier>>

editorVars == <<variantCount, batches, referenceVars, studioVars>>

panelVars == <<queuedRequests, selectedRequestId, isRefreshing>>

\* everything the queue, the panel, the canvas and the composer hold
queueVars == <<store, now, remote, sub, panelVars, sel, ref, loads, canvas, clicks,
               deleted, pollErrors, lastStatus, composerVars, assets>>

\* Date.now(). Time passes between two submissions of the user (the clock has
\* advanced when a new record is built); the other reads see the clock as it is.
Later(n) == n + 1

\* the status last persisted under each key, after the store changed to st
Persisted(st) ==
  [k \in (DOMAIN lastStatus) \cup (DOMAIN st) |->
     IF k \in DOMAIN st THEN st[k].status ELSE lastStatus[k]]

\* the handlers that are suspended at an await
InFlight ==
  Cardinality({i \in Ids : sub[i].pc \notin {"idle", "done", "lost"}})
  + Cardinality({s \in Selects : sel[s].pc # "idle"})
  + Cardinality({l \in 1..MaxLoads : loads[l].pc # "idle"})
  + (IF ref.pc # "idle" THEN 1 ELSE 0)

\* ---------------------------------------------------------- CacheService
\* a save that resolves without having written
saveQueuedRequestLost(st, ns, request) == st

\* saveQueuedRequest / saveVideoQueuedRequest: set(getKey(ns, request.id), request)
saveQueuedRequest(st, ns, request) == IdbSet(st, getKey(ns, request.id), request)

\* updateQueuedRequest / updateVideoQueuedRequest, first half:
\* const existing = await this.getQueuedRequest(id)
getQueuedRequest(st, ns, id) == IdbGet(st, getKey(ns, id))

\* an update that writes whether or not it found a record
UpdateGuardAlways(existing) == TRUE

\* `if (existing)`
UpdateGuard(existing) == existing # NULL

\* an update that stores the id and the partial record alone
updateQueuedRequestReplaces(st, ns, id, existing, updates) ==
  IdbSet(st, getKey(ns, id), Merge([id |-> id], updates))

\* second half: await set(getKey(ns, id), { ...existing, ...updates })
updateQueuedRequest(st, ns, id, existing, updates) ==
  IdbSet(st, getKey(ns, id), Merge(existing, updates))

\* deleteQueuedRequest / deleteVideoQueuedRequest: del(getKey(ns, id))
deleteQueuedRequest(st, ns, id) == IdbDel(st, getKey(ns, id))

\* ------------------------------------------------------- submission flows
\* args: the media a start-video call was given
IdleSub == [pc |-> "idle", ns |-> "", call |-> "", rec |-> NULL,
            updates |-> NULL, existing |-> NULL, args |-> NULL]

\* a handler that has returned keeps no locals; which call it used is kept as history
Returned(f) == [IdleSub EXCEPT !.pc = "done", !.ns = f.ns, !.call = f.call,
                               !.args = f.args]

\* the queueRequest object literal of handleQueueForBatch
NewQueueRequest(id, tool, prompt, canvasImage, t) ==
  Merge([id |-> id,
         type |-> IF tool = "generate" THEN "generate" ELSE "edit",
         prompt |-> prompt,
         status |-> "pending",
         createdAt |-> t],
        OriginalImageOf(canvasImage))

\* extractBase64(dataUrl): undefined for null, else what follows 'base64,'
extractBase64(dataUrl) ==
  IF dataUrl = Null THEN Null
  ELSE CHOOSE d \in UploadedFiles \cup UploadedVideos :
         dataUrl \in {ImageUrl(d), VideoUrl(d)}

\* a record of the fields that are not undefined
Defined(r) == [f \in {x \in DOMAIN r : r[x] # Null} |-> r[f]]

\* the videoQueueRequest object literal of handleVideoQueueForBatch
NewVideoQueueRequest(id, prompt, startFrame, lastFrame, sourceVideo, t) ==
  Merge([id |-> id,
         type |-> IF extractBase64(sourceVideo) # Null THEN "video-extend"
                  ELSE "video-generate",
         prompt |-> prompt,
         status |-> "pending",
         createdAt |-> t],
        Defined([startFrameImage |-> extractBase64(startFrame),
                 lastFrameImage |-> extractBase64(lastFrame),
                 sourceVideo |-> extractBase64(sourceVideo)]))

\* the image, lastFrame and video arguments of geminiService.generateVideo
GenerateVideoArgs(startFrame, lastFrame, sourceVideo) ==
  Defined([image |-> extractBase64(startFrame),
           lastFrame |-> extractBase64(lastFrame),
           video |-> extractBase64(sourceVideo)])

\* isEditMode && originalImage ? submitBatchEditRequest : submitBatchRequest
BatchCallFor(tool, rec) ==
  IF tool # "generate" /\ Has(rec, "originalImage") THEN "edit" ELSE "generate"

\* server: res.json({ batchName: response.name || '' })
BatchNameOf(named, i) == IF named THEN JobName(i) ELSE ""

\* the Error the geminiService wrapper throws when the proxy call fails
SubmitErrorMessage(call) ==
  IF call = "edit" THEN "Failed to submit batch edit request. Please try again."
  ELSE "Failed to submit batch request. Please try again."

\* the partial records the submission handlers pass to update
SubmittedUpdates(batchName, t) ==
  [status |-> "submitted", batchJobName |-> batchName, submittedAt |-> t]

VideoSubmittedUpdates(operationName, t) ==
  [status |-> "submitted", operationName |-> operationName, submittedAt |-> t]

\* a catch block that drops the message
SubmitFailedUpdatesNoMessage(message) == [status |-> "failed"]

SubmitFailedUpdates(message) == [status |-> "failed", error |-> message]

\* handleQueueForBatch / handleVideoQueueForBatch up to `await save...(request)`:
\* the record is built and its save is issued
QueueForBatch(i, tool, prompt) ==
  /\ InFlight < MaxInFlight
  /\ clicks < MaxClicks
  /\ clicks' = clicks + 1
  /\ sub[i].pc = "idle"
  /\ \A j \in Ids : j < i => sub[j].pc # "idle"
  /\ LET t == Later(now)
     IN /\ now' = t
       /\ sub' = [sub EXCEPT ![i] =
            IF tool = "video"
            THEN [IdleSub EXCEPT !.pc = "saving", !.ns = "video-queue", !.call = "video",
                                 !.rec = NewVideoQueueRequest(i, prompt, videoStartFrame,
                                          videoLastFrame, videoSourceVideo, t),
                                 !.args = GenerateVideoArgs(videoStartFrame,
                                          videoLastFrame, videoSourceVideo)]
            ELSE LET rec == NewQueueRequest(i, tool, prompt, canvas.canvasImage, t)
                 IN [IdleSub EXCEPT !.pc = "saving", !.ns = "queue",
                                    !.call = BatchCallFor(tool, rec), !.rec = rec]]
  /\ UNCHANGED <<store, remote, panelVars, sel, ref, loads, canvas,
                 deleted, pollErrors, lastStatus>>
  /\ UNCHANGED <<composerVars, assets>>
  /\ UNCHANGED editorVars

\* the save resolves; the remote submission call is issued
SaveDone(i) ==
  /\ sub[i].pc = "saving"
  /\ store' = saveQueuedRequest(store, sub[i].ns, sub[i].rec)
  /\ lastStatus' = Persisted(store')
  /\ sub' = [sub EXCEPT ![i].pc = "calling", ![i].rec = NULL]
  /\ UNCHANGED <<clicks, now, remote, panelVars, sel, ref, loads, canvas, deleted, pollErrors>>
  /\ UNCHANGED <<composerVars, assets>>
  /\ UNCHANGED editorVars

\* the submission call resolves: the remote job exists; update(id, ...) is called
\* and issues its read
SubmitReply(i) ==
  /\ sub[i].pc = "calling"
  /\ \/ /\ sub[i].call # "video"
        /\ \E named \in BOOLEAN :
             sub' = [sub EXCEPT ![i].pc = "updRead",
                       ![i].updates = SubmittedUpdates(BatchNameOf(named, i), now)]
        /\ remote' = [remote EXCEPT ![i] = [state |-> "JOB_STATE_PENDING"]]
     \/ /\ sub[i].call = "video"
        /\ sub' = [sub EXCEPT ![i].pc = "updRead",
                     ![i].updates = VideoSubmittedUpdates(JobName(i), now)]
        /\ remote' = [remote EXCEPT ![i] = [done |-> FALSE]]
  /\ UNCHANGED <<clicks, store, now, panelVars, sel, ref, loads, canvas, deleted, pollErrors,
                 lastStatus>>
  /\ UNCHANGED <<composerVars, assets>>
  /\ UNCHANGED editorVars

\* the submission call throws: the catch block calls update(id, ...)
SubmitThrows(i) ==
  /\ sub[i].pc = "calling"
  /\ \E m \in (IF sub[i].call = "video" THEN VideoSubmitErrors
                ELSE {SubmitErrorMessage(sub[i].call)}) :
       sub' = [sub EXCEPT ![i].pc = "updRead", ![i].updates = SubmitFailedUpdates(m)]
  /\ UNCHANGED <<clicks, store, now, remote, panelVars, sel, ref, loads, canvas,
                 deleted, pollErrors, lastStatus>>
  /\ UNCHANGED <<composerVars, assets>>
  /\ UNCHANGED editorVars

\* update's read resolves: `if (existing)` either issues the write or returns
SubmitUpdateRead(i) ==
  /\ sub[i].pc = "updRead"
  /\ LET existing == getQueuedRequest(store, sub[i].ns, i)
     IN sub' = [sub EXCEPT ![i] =
                  IF UpdateGuard(existing)
                  THEN [sub[i] EXCEPT !.existing = existing, !.pc = "updWrite"]
                  ELSE Returned(sub[i])]
  /\ UNCHANGED <<clicks, store, now, remote, panelVars, sel, ref, loads, canvas,
                 deleted, pollErrors, lastStatus>>
  /\ UNCHANGED <<composerVars, assets>>
  /\ UNCHANGED editorVars

\* update's write resolves: the handler returns
SubmitUpdateWrite(i) ==
  /\ sub[i].pc = "updWrite"
  /\ store' = updateQueuedRequest(store, sub[i].ns, i, sub[i].existing, sub[i].updates)
  /\ lastStatus' = Persisted(store')
  /\ sub' = [sub EXCEPT ![i] = Returned(sub[i])]
  /\ UNCHANGED <<clicks, now, remote, panelVars, sel, ref, loads, canvas, deleted, pollErrors>>
  /\ UNCHANGED <<composerVars, assets>>
  /\ UNCHANGED editorVars

\* ------------------------------------------------ the remote service, proxy
\* GET /api/batch/:name -> state: response.state || 'UNKNOWN'
BatchState(job) == IF Has(job, "state") THEN job.state ELSE "UNKNOWN"

\* GET /api/batch/:name/results: throws unless the job succeeded, else the images
BatchResultsThrows(job) == BatchState(job) # "JOB_STATE_SUCCEEDED"
BatchResults(job) == job.images

\* `operation.done ?? false`: the remote service leaves the field out until the
\* operation is done
OperationDone(op) == IF Has(op, "done") THEN op.done ELSE FALSE

\* an answer that tells a finished operation by its done flag alone
OperationStatusIgnoresError(op) ==
  Merge([done |-> OperationDone(op),
         state |-> IF OperationDone(op) THEN "SUCCEEDED" ELSE "RUNNING"],
        IF Has(op, "error")
        THEN [error |-> IF op.error # "" THEN op.error ELSE "Video generation failed"]
        ELSE NULL)

\* GET /api/video/operation/status
OperationStatus(op) ==
  Merge([done |-> OperationDone(op),
         state |-> IF OperationDone(op)
                   THEN (IF Has(op, "error") THEN "FAILED" ELSE "SUCCEEDED")
                   ELSE "RUNNING"],
        IF Has(op, "error")
        THEN [error |-> IF op.error # "" THEN op.error ELSE "Video generation failed"]
        ELSE NULL)

\* GET /api/video/operation/result: an error response unless the operation is
\* done without error and holds a video
OperationResultThrows(op) == ~OperationDone(op) \/ Has(op, "error") \/ ~Has(op, "video")
OperationResult(op) == [video |-> op.video]

\* the body of the error response of the result endpoint
OperationResultError(op) ==
  IF ~OperationDone(op) THEN [error |-> "Video generation not complete", state |-> "RUNNING"]
  ELSE IF Has(op, "error")
  THEN [error |-> IF op.error # "" THEN op.error ELSE "Video generation failed",
        state |-> "FAILED"]
  ELSE [error |-> "No video generated"]

\* a job or operation that can be found in another final state at every query
FinalStatesRedrawn(job) ==
  IF Has(job, "state")
  THEN {[state |-> "JOB_STATE_SUCCEEDED", images |-> images] : images \in ImageLists}
       \cup {[state |-> st] : st \in {"JOB_STATE_FAILED", "JOB_STATE_CANCELLED"}}
  ELSE IF Has(job, "done")
  THEN {[done |-> TRUE, video |-> v] : v \in VideoPayloads}
       \cup {[done |-> TRUE, error |-> m] : m \in OpErrors}
  ELSE {}

\* the final states a running job or operation can reach; it keeps the one it
\* reached
FinalStates(job) ==
  IF Has(job, "state") /\ job.state = "JOB_STATE_PENDING"
  THEN {[state |-> "JOB_STATE_SUCCEEDED", images |-> images] : images \in ImageLists}
       \cup {[state |-> st] : st \in {"JOB_STATE_FAILED", "JOB_STATE_CANCELLED"}}
  ELSE IF Has(job, "done") /\ ~job.done
  THEN {[done |-> TRUE, video |-> v] : v \in VideoPayloads}
       \cup {[done |-> TRUE, error |-> m] : m \in OpErrors}
  ELSE {}

\* what a query finds: the job as it was last seen, or finished in the meantime
Observed(job) == {job} \cup FinalStates(job)

\* ------------------------------------------------------- listing, sorting
RECURSIVE KeysBelow(_, _, _)
\* the keys of type ns in the store, in key order
KeysBelow(st, ns, n) ==
  IF n = 0 THEN <<>>
  ELSE LET rest == KeysBelow(st, ns, n - 1)
       IN IF getKey(ns, n) \in DOMAIN st THEN Append(rest, getKey(ns, n)) ELSE rest

\* keys(): every key of the store, in key order ("...-queue-" sorts before
\* "...-video-queue-")
keys(st) == KeysBelow(st, "queue", MaxStored) \o KeysBelow(st, "video-queue", MaxStored)

\* a listing in the order of the keys
InsertLast(sorted, x) == Append(sorted, x)

\* x goes behind every element that is at least as new: Array.prototype.sort is
\* stable
InsertNewestFirst(sorted, x) ==
  LET before == {k \in 1..Len(sorted) : sorted[k].createdAt >= x.createdAt}
      n == IF before = {} THEN 0 ELSE CHOOSE k \in before : \A j \in before : j <= k
  IN SubSeq(sorted, 1, n) \o <<x>> \o SubSeq(sorted, n + 1, Len(sorted))

RECURSIVE SortNewestFirst(_)
\* .sort((a, b) => b.createdAt - a.createdAt)
SortNewestFirst(list) ==
  IF list = <<>> THEN <<>>
  ELSE InsertNewestFirst(SortNewestFirst(SubSeq(list, 1, Len(list) - 1)),
                         list[Len(list)])

\* getAllQueuedRequests / getAllVideoQueuedRequests
getAllQueuedRequests(st, ns) ==
  LET queueKeys == SelectSeq(keys(st), LAMBDA key : Includes(key, ns))
  IN SortNewestFirst([k \in 1..Len(queueKeys) |-> st[queueKeys[k]]])

\* the two listings one after the other
CombinedUnsorted(imageRequests, videoRequests) ==
  [k \in 1..Len(imageRequests) |-> Merge(imageRequests[k], [isVideo |-> FALSE])]
  \o [k \in 1..Len(videoRequests) |-> Merge(videoRequests[k], [isVideo |-> TRUE])]

\* the body of loadQueuedRequests after both reads
CombinedRequests(imageRequests, videoRequests) ==
  SortNewestFirst(
    [k \in 1..Len(imageRequests) |-> Merge(imageRequests[k], [isVideo |-> FALSE])]
    \o [k \in 1..Len(videoRequests) |-> Merge(videoRequests[k], [isVideo |-> TRUE])])

\* ----------------------------------------------------------------- canvas
\* useAppStore.setCanvasImages(urls)
setCanvasImages(c, urls) ==
  [c EXCEPT !.canvasImages = urls,
            !.canvasImage = IF Len(urls) > 0 THEN urls[1] ELSE Null,
            !.canvasImageIndex = 0]

\* useAppStore.setCanvasImage(url)
setCanvasImage(c, url) ==
  [c EXCEPT !.canvasImage = url,
            !.canvasImages = IF url # Null THEN <<url>> ELSE <<>>,
            !.canvasImageIndex = 0]

\* useAppStore.setCanvasVideo(url)
setCanvasVideo(c, url) == [c EXCEPT !.canvasVideo = url]

\* canvasZoom is kept in tenths: 10 is the zoom 1 of the store's initial state
Zoom1 == 10
\* Math.max(0.1, Math.min(3, canvasZoom + delta))
MinZoom == 1
MaxZoom == 30
\* the offsets a drag of the stage ends at
Pans == {<<0, 0>>, <<4, 0>>, <<0, -4>>}

\* useAppStore.setCanvasZoom(zoom), setCanvasPan(pan)
setCanvasZoom(c, zoom) == [c EXCEPT !.canvasZoom = zoom]
setCanvasPan(c, pan) == [c EXCEPT !.canvasPan = pan]

\* a % b of JavaScript for b > 0: the remainder has the sign of a
JsRemainder(a, b) == IF a >= 0 THEN a % b ELSE 0 - ((0 - a) % b)

\* an index taken as `index % len` alone; an array read outside its bounds gives
\* undefined
setCanvasImageIndexRemainder(c, index) ==
  IF Len(c.canvasImages) = 0 THEN c
  ELSE LET len == Len(c.canvasImages)
           nextIndex == JsRemainder(index, len)
       IN [c EXCEPT !.canvasImageIndex = nextIndex,
                    !.canvasImage = IF nextIndex + 1 \in 1..len
                                    THEN c.canvasImages[nextIndex + 1] ELSE Null]

\* useAppStore.setCanvasImageIndex(index)
setCanvasImageIndex(c, index) ==
  IF Len(c.canvasImages) = 0 THEN c
  ELSE LET len == Len(c.canvasImages)
           nextIndex == JsRemainder(JsRemainder(index, len) + len, len)
       IN [c EXCEPT !.canvasImageIndex = nextIndex,
                    !.canvasImage = c.canvasImages[nextIndex + 1]]

\* loadImageToCanvas(base64Data), called with an array
loadImageToCanvas(c, base64Data) ==
  setCanvasImages(
    setCanvasPan(setCanvasZoom(setCanvasVideo(c, Null), Zoom1), <<0, 0>>),
    [k \in 1..Len(base64Data) |-> ImageUrl(base64Data[k])])

\* a video load that leaves the image on the canvas
loadVideoKeepsImage(c, base64Data) == setCanvasVideo(c, VideoUrl(base64Data))

\* loadVideoToCanvas(base64Data)
loadVideoToCanvas(c, base64Data) ==
  setCanvasVideo(setCanvasImage(c, Null), VideoUrl(base64Data))

\* useAppStore: addUploadedImage / addEditReferenceImage, removeUploadedImage /
\* removeEditReferenceImage (filter by index, counted from 0)
addImage(images, url) == Append(images, url)
removeImage(images, index) ==
  IF index + 1 \in 1..Len(images)
  THEN [k \in 1..(Len(images) - 1) |-> IF k < index + 1 THEN images[k] ELSE images[k + 1]]
  ELSE images

\* the edit branch of handleFileUpload, given the list and the canvas image it reads
EditUpload(references, canvasImage, dataUrl) ==
  [references |-> IF Len(references) < MaxReferenceImages
                  THEN addImage(references, dataUrl) ELSE references,
   canvas |-> IF canvasImage = Null THEN setCanvasImage(canvas, dataUrl) ELSE canvas]

\* handleFileUpload with the edit tool selected and a file that is read at once:
\* the file joins the edit reference images if there is room, and becomes the
\* canvas image if the canvas holds none
FileUpload(data) ==
  /\ clicks < MaxClicks
  /\ clicks' = clicks + 1
  /\ LET done == EditUpload(editReferenceImages, canvas.canvasImage, ImageUrl(data))
     IN /\ editReferenceImages' = done.references
        /\ canvas' = done.canvas
  /\ UNCHANGED <<store, now, remote, sub, panelVars, sel, ref, loads, deleted,
                 pollErrors, lastStatus>>
  /\ UNCHANGED <<composerVars, assets>>
  /\ UNCHANGED <<studioVars, variantCount, batches, uploadedImages, brushStrokes, fileReads, requests>>

\* ---------------------------------------- fire-and-forget loadQueuedRequests
IdleLoad == [pc |-> "idle", images |-> <<>>]
FreeLoads == {l \in 1..MaxLoads : loads[l].pc = "idle"}

\* loadQueuedRequests() is called and not awaited: its first read is issued
CallLoad(ls) ==
  LET l == CHOOSE x \in 1..MaxLoads :
             ls[x].pc = "idle" /\ \A y \in 1..MaxLoads : ls[y].pc = "idle" => x <= y
  IN [ls EXCEPT ![l] = [pc |-> "images", images |-> <<>>]]

\* const imageRequests = await CacheService.getAllQueuedRequests()
LoadImages(l) ==
  /\ loads[l].pc = "images"
  /\ loads' = [loads EXCEPT ![l] =
       [pc |-> "videos", images |-> getAllQueuedRequests(store, "queue")]]
  /\ UNCHANGED <<clicks, store, now, remote, sub, panelVars, sel, ref, canvas,
                 deleted, pollErrors, lastStatus>>
  /\ UNCHANGED <<composerVars, assets>>
  /\ UNCHANGED editorVars

\* const videoRequests = await ...; combine, sort, setQueuedRequests
LoadVideos(l) ==
  /\ loads[l].pc = "videos"
  /\ queuedRequests' =
       CombinedRequests(loads[l].images, getAllQueuedRequests(store, "video-queue"))
  /\ loads' = [loads EXCEPT ![l] = IdleLoad]
  /\ UNCHANGED <<clicks, store, now, remote, sub, selectedRequestId, isRefreshing,
                 sel, ref, canvas, deleted, pollErrors, lastStatus>>
  /\ UNCHANGED <<composerVars, assets>>
  /\ UNCHANGED editorVars

\* ------------------------------------------------------------------ polls
\* state.replace('JOB_STATE_', '').toLowerCase()
StripLower(state) ==
  CASE state = "JOB_STATE_FAILED" -> "failed"
    [] state = "JOB_STATE_CANCELLED" -> "cancelled"
    [] OTHER -> "unknown"

\* a success branch that leaves the time out
SucceededUpdatesUntimed(images, t) == [status |-> "succeeded", resultImages |-> images]

\* the partial records the poll code passes to update
SucceededUpdates(images, t) ==
  [status |-> "succeeded", resultImages |-> images, completedAt |-> t]

\* a failure branch that stores the state name as it came
FailedUpdatesRawState(state) == [status |-> "failed", error |-> "Job " \o state]

FailedUpdates(state) == [status |-> "failed", error |-> "Job " \o StripLower(state)]

VideoSucceededUpdates(video, t) ==
  [status |-> "succeeded", resultVideo |-> video, completedAt |-> t]

\* error: status.error || 'Video generation failed'
VideoFailedUpdates(status) ==
  [status |-> "failed",
   error |-> IF TruthyStr(status, "error") THEN status.error
             ELSE "Video generation failed"]

\* a catch block that marks the record failed
CatchUpdatesFailed == [status |-> "failed", error |-> "Error checking status"]

\* what the catch block of a poll persists: nothing, it only logs
CatchUpdates == NULL

\* a poll that also persists the progress of a job that is still running
StatusOutcomeTracksRunning(isVideo, job) ==
  IF isVideo
  THEN LET status == OperationStatus(job)
       IN IF status.state = "SUCCEEDED" THEN [next |-> "result"]
          ELSE IF status.state = "FAILED"
          THEN [next |-> "update", updates |-> VideoFailedUpdates(status)]
          ELSE [next |-> "update", updates |-> [status |-> "processing"]]
  ELSE LET state == BatchState(job)
       IN IF state = "JOB_STATE_SUCCEEDED" THEN [next |-> "result"]
          ELSE IF state \in {"JOB_STATE_FAILED", "JOB_STATE_CANCELLED"}
          THEN [next |-> "update", updates |-> FailedUpdates(state)]
          ELSE [next |-> "update", updates |-> [status |-> "submitted"]]

\* what follows the answer to a status query: the result fetch, an update, or
\* nothing
StatusOutcome(isVideo, job) ==
  IF isVideo
  THEN LET status == OperationStatus(job)
       IN IF status.state = "SUCCEEDED" THEN [next |-> "result"]
          ELSE IF status.state = "FAILED"
          THEN [next |-> "update", updates |-> VideoFailedUpdates(status)]
          ELSE [next |-> "none"]
  ELSE LET state == BatchState(job)
       IN IF state = "JOB_STATE_SUCCEEDED" THEN [next |-> "result"]
          ELSE IF state \in {"JOB_STATE_FAILED", "JOB_STATE_CANCELLED"}
          THEN [next |-> "update", updates |-> FailedUpdates(state)]
          ELSE [next |-> "none"]

\* what follows the answer to a result fetch: an update, or the catch block when
\* the proxy answers with an error
ResultOutcome(isVideo, job, t) ==
  IF isVideo
  THEN IF OperationResultThrows(job) THEN [next |-> "catch"]
       ELSE LET result == OperationResult(job)
            IN [next |-> "update", result |-> result,
                updates |-> VideoSucceededUpdates(result.video, t)]
  ELSE IF BatchResultsThrows(job) THEN [next |-> "catch"]
       ELSE LET images == BatchResults(job)
            IN [next |-> "update", result |-> [images |-> images],
                updates |-> SucceededUpdates(images, t)]

Namespace(isVideo) == IF isVideo THEN "video-queue" ELSE "queue"

\* ------------------------------------------------------ handleSelectRequest
NoId == 0
IdleSel == [pc |-> "idle", isVideo |-> FALSE, id |-> NoId, name |-> "",
            result |-> NULL, updates |-> NULL, existing |-> NULL, nStatus |-> 0]

\* `freshRequest.status === 'succeeded' && freshRequest.resultVideo` and
\* `freshRequest.status === 'succeeded' && freshRequest.resultImages?.length`
SelectLoadsCached(isVideo, fresh) ==
  /\ fresh.status = "succeeded"
  /\ IF isVideo THEN TruthyStr(fresh, "resultVideo") ELSE TruthyLen(fresh, "resultImages")

\* `freshRequest.status === 'processing' && freshRequest.operationName` and
\* `freshRequest.status === 'submitted' && freshRequest.batchJobName`
SelectPolls(isVideo, fresh) ==
  IF isVideo THEN fresh.status = "processing" /\ TruthyStr(fresh, "operationName")
  ELSE fresh.status = "submitted" /\ TruthyStr(fresh, "batchJobName")

RemoteNameOf(isVideo, request) ==
  IF isVideo THEN request.operationName ELSE request.batchJobName

\* what the handler loads into the canvas after its update returned
CanvasAfterPoll(c, result) ==
  IF Has(result, "video") THEN loadVideoToCanvas(c, result.video)
  ELSE IF Has(result, "images") /\ Len(result.images) > 0
  THEN loadImageToCanvas(c, result.images)
  ELSE c

\* the user clicks a row: setSelectedRequestId, then the fresh read is issued
SelectRequest(s, n) ==
  /\ InFlight < MaxInFlight
  /\ clicks < MaxClicks
  /\ clicks' = clicks + 1
  /\ sel[s].pc = "idle"
  /\ n \in 1..Len(queuedRequests)
  /\ selectedRequestId' = queuedRequests[n].id
  /\ sel' = [sel EXCEPT ![s] = [IdleSel EXCEPT !.pc = "read",
                                  !.isVideo = queuedRequests[n].isVideo,
                                  !.id = queuedRequests[n].id]]
  /\ UNCHANGED <<store, now, remote, sub, queuedRequests, isRefreshing, ref,
                 loads, canvas, deleted, pollErrors, lastStatus>>
  /\ UNCHANGED <<composerVars, assets>>
  /\ UNCHANGED editorVars

\* the fresh read resolves: return, load the stored result, or issue the status query
SelectRead(s) ==
  /\ sel[s].pc = "read"
  /\ LET f == sel[s]
         fresh == getQueuedRequest(store, Namespace(f.isVideo), f.id)
     IN IF fresh = NULL THEN sel' = [sel EXCEPT ![s] = IdleSel] /\ canvas' = canvas
        ELSE IF SelectLoadsCached(f.isVideo, fresh)
        THEN /\ sel' = [sel EXCEPT ![s] = IdleSel]
             /\ canvas' = IF f.isVideo THEN loadVideoToCanvas(canvas, fresh.resultVideo)
                           ELSE loadImageToCanvas(canvas, fresh.resultImages)
        ELSE IF SelectPolls(f.isVideo, fresh)
        THEN /\ sel' = [sel EXCEPT ![s].pc = "status",
                                    ![s].name = RemoteNameOf(f.isVideo, fresh),
                                    ![s].nStatus = f.nStatus + 1]
             /\ canvas' = canvas
        ELSE sel' = [sel EXCEPT ![s] = IdleSel] /\ canvas' = canvas
  /\ UNCHANGED <<clicks, store, now, remote, sub, panelVars, ref, loads, deleted, pollErrors,
                 lastStatus>>
  /\ UNCHANGED <<composerVars, assets>>
  /\ UNCHANGED editorVars

\* a poll whose error leaves handleSelectRequest as a rejection
SelectRejects(f) == [f EXCEPT !.pc = "rejected"]

\* the flow after the catch block of its poll
SelectCaught(f) ==
  IF CatchUpdates # NULL THEN [f EXCEPT !.pc = "updRead", !.updates = CatchUpdates]
  ELSE IdleSel

\* the status query resolves
SelectStatus(s) ==
  /\ sel[s].pc = "status"
  /\ \E job \in Observed(remote[JobOf(sel[s].name)]) :
       /\ remote' = [remote EXCEPT ![JobOf(sel[s].name)] = job]
       /\ LET out == StatusOutcome(sel[s].isVideo, job)
          IN sel' = [sel EXCEPT ![s] =
                       IF out.next = "result" THEN [sel[s] EXCEPT !.pc = "result"]
                       ELSE IF out.next = "update"
                       THEN [sel[s] EXCEPT !.pc = "updRead", !.updates = out.updates]
                       ELSE IdleSel]
  /\ UNCHANGED <<clicks, store, now, sub, panelVars, ref, loads, canvas, deleted, pollErrors,
                 lastStatus>>
  /\ UNCHANGED <<composerVars, assets>>
  /\ UNCHANGED editorVars

\* the status query throws
SelectStatusThrows(s) ==
  /\ sel[s].pc = "status"
  /\ sel' = [sel EXCEPT ![s] = SelectCaught(sel[s])]
  /\ pollErrors' = pollErrors \cup {getKey(Namespace(sel[s].isVideo), sel[s].id)}
  /\ UNCHANGED <<clicks, store, now, remote, sub, panelVars, ref, loads, canvas,
                 deleted, lastStatus>>
  /\ UNCHANGED <<composerVars, assets>>
  /\ UNCHANGED editorVars

\* the result fetch resolves; update(id, ...) issues its read
SelectResult(s) ==
  /\ sel[s].pc = "result"
  /\ LET out == ResultOutcome(sel[s].isVideo, remote[JobOf(sel[s].name)], now)
     IN /\ out.next = "update"
        /\ sel' = [sel EXCEPT ![s].pc = "updRead", ![s].updates = out.updates,
                                ![s].result = out.result]
  /\ UNCHANGED <<clicks, store, now, remote, sub, panelVars, ref, loads, canvas,
                 deleted, pollErrors, lastStatus>>
  /\ UNCHANGED <<composerVars, assets>>
  /\ UNCHANGED editorVars

\* the result fetch throws: the request fails, or the proxy answers with an error
SelectResultThrows(s) ==
  /\ sel[s].pc = "result"
  /\ sel' = [sel EXCEPT ![s] = SelectCaught(sel[s])]
  /\ pollErrors' = pollErrors \cup {getKey(Namespace(sel[s].isVideo), sel[s].id)}
  /\ UNCHANGED <<clicks, store, now, remote, sub, panelVars, ref, loads, canvas,
                 deleted, lastStatus>>
  /\ UNCHANGED <<composerVars, assets>>
  /\ UNCHANGED editorVars

\* update's read resolves; when the record is gone update returns at once and the
\* handler goes on: canvas load, loadQueuedRequests()
SelectUpdateRead(s) ==
  /\ sel[s].pc = "updRead"
  /\ LET f == sel[s]
         existing == getQueuedRequest(store, Namespace(f.isVideo), f.id)
     IN IF UpdateGuard(existing)
        THEN /\ sel' = [sel EXCEPT ![s].pc = "updWrite", ![s].existing = existing]
             /\ UNCHANGED <<canvas, loads>>
        ELSE /\ FreeLoads # {}
             /\ sel' = [sel EXCEPT ![s] = IdleSel]
             /\ canvas' = CanvasAfterPoll(canvas, f.result)
             /\ loads' = CallLoad(loads)
  /\ UNCHANGED <<clicks, store, now, remote, sub, panelVars, ref, deleted, pollErrors,
                 lastStatus>>
  /\ UNCHANGED <<composerVars, assets>>
  /\ UNCHANGED editorVars

\* update's write resolves; the handler goes on: canvas load, loadQueuedRequests()
SelectUpdateWrite(s) ==
  /\ sel[s].pc = "updWrite"
  /\ FreeLoads # {}
  /\ LET f == sel[s]
     IN /\ store' = updateQueuedRequest(store, Namespace(f.isVideo), f.id,
                                        f.existing, f.updates)
        /\ canvas' = CanvasAfterPoll(canvas, f.result)
  /\ lastStatus' = Persisted(store')
  /\ sel' = [sel EXCEPT ![s] = IdleSel]
  /\ loads' = CallLoad(loads)
  /\ UNCHANGED <<clicks, now, remote, sub, panelVars, ref, deleted, pollErrors>>
  /\ UNCHANGED <<composerVars, assets>>
  /\ UNCHANGED editorVars

\* --------------------------------------------------------- handleRefreshAll
\* polls[k] counts the status queries issued for entry k of the list
IdleRef == [pc |-> "idle", list |-> <<>>, idx |-> 0, images |-> <<>>,
            updates |-> NULL, existing |-> NULL, polls |-> <<>>]

\* a loop that polls only the entries marked processing
RefreshPollsProcessing(request) ==
  IF request.isVideo
  THEN request.status = "processing" /\ TruthyStr(request, "operationName")
  ELSE request.status = "processing" /\ TruthyStr(request, "batchJobName")

\* the conditions under which the loop body polls a list entry
RefreshPolls(request) ==
  IF request.isVideo
  THEN request.status \in {"submitted", "processing"} /\ TruthyStr(request, "operationName")
  ELSE request.status = "submitted" /\ TruthyStr(request, "batchJobName")

RECURSIVE NextPoll(_, _)
\* the loop runs on without suspending up to the next entry it polls
NextPoll(list, k) ==
  IF k > Len(list) THEN k
  ELSE IF RefreshPolls(list[k]) THEN k ELSE NextPoll(list, k + 1)

\* the flow at entry k of its list: a status query in flight, or past the loop
\* with the first read of `await loadQueuedRequests()` in flight
RefreshAt(f, k) ==
  LET n == NextPoll(f.list, k)
  IN [IdleRef EXCEPT !.list = f.list, !.idx = n,
                     !.pc = IF n > Len(f.list) THEN "loadImages" ELSE "status",
                     !.polls = IF n > Len(f.list) THEN f.polls
                               ELSE [f.polls EXCEPT ![n] = @ + 1]]

RefreshName(f) == RemoteNameOf(f.list[f.idx].isVideo, f.list[f.idx])
RefreshKey(f) == getKey(Namespace(f.list[f.idx].isVideo), f.list[f.idx].id)

\* the user clicks refresh: the loop runs over the list of the current render
RefreshAll ==
  /\ InFlight < MaxInFlight
  /\ clicks < MaxClicks
  /\ clicks' = clicks + 1
  /\ ~isRefreshing
  /\ ref.pc = "idle"
  /\ isRefreshing' = TRUE
  /\ ref' = RefreshAt([IdleRef EXCEPT !.list = queuedRequests,
                                       !.polls = [k \in 1..Len(queuedRequests) |-> 0]], 1)
  /\ UNCHANGED <<store, now, remote, sub, queuedRequests, selectedRequestId,
                 sel, loads, canvas, deleted, pollErrors, lastStatus>>
  /\ UNCHANGED <<composerVars, assets>>
  /\ UNCHANGED editorVars

\* a catch block outside the loop: the handler ends at the first failure
RefreshCaughtAborts(f) == IdleRef

\* a loop without the try block: the failure rejects the handler's promise
RefreshCaughtRejects(f) == [f EXCEPT !.pc = "rejected"]

\* the flow after the catch block of the current entry's poll
RefreshCaught(f) ==
  IF CatchUpdates # NULL THEN [f EXCEPT !.pc = "updRead", !.updates = CatchUpdates]
  ELSE RefreshAt(f, f.idx + 1)

\* the status query of the current entry resolves
RefreshStatus ==
  /\ ref.pc = "status"
  /\ \E job \in Observed(remote[JobOf(RefreshName(ref))]) :
       /\ remote' = [remote EXCEPT ![JobOf(RefreshName(ref))] = job]
       /\ LET out == StatusOutcome(ref.list[ref.idx].isVideo, job)
          IN ref' = IF out.next = "result" THEN [ref EXCEPT !.pc = "result"]
                    ELSE IF out.next = "update"
                    THEN [ref EXCEPT !.pc = "updRead", !.updates = out.updates]
                    ELSE RefreshAt(ref, ref.idx + 1)
  /\ UNCHANGED <<clicks, store, now, sub, panelVars, sel, loads, canvas, deleted, pollErrors,
                 lastStatus>>
  /\ UNCHANGED <<composerVars, assets>>
  /\ UNCHANGED editorVars

\* the status query of the current entry throws
RefreshStatusThrows ==
  /\ ref.pc = "status"
  /\ ref' = RefreshCaught(ref)
  /\ pollErrors' = pollErrors \cup {RefreshKey(ref)}
  /\ UNCHANGED <<clicks, store, now, remote, sub, panelVars, sel, loads, canvas,
                 deleted, lastStatus>>
  /\ UNCHANGED <<composerVars, assets>>
  /\ UNCHANGED editorVars

\* the result fetch of the current entry resolves
RefreshResult ==
  /\ ref.pc = "result"
  /\ LET out == ResultOutcome(ref.list[ref.idx].isVideo,
                              remote[JobOf(RefreshName(ref))], now)
     IN /\ out.next = "update"
        /\ ref' = [ref EXCEPT !.pc = "updRead", !.updates = out.updates]
  /\ UNCHANGED <<clicks, store, now, remote, sub, panelVars, sel, loads, canvas,
                 deleted, pollErrors, lastStatus>>
  /\ UNCHANGED <<composerVars, assets>>
  /\ UNCHANGED editorVars

\* the result fetch of the current entry throws: the request fails, or the proxy
\* answers with an error
RefreshResultThrows ==
  /\ ref.pc = "result"
  /\ ref' = RefreshCaught(ref)
  /\ pollErrors' = pollErrors \cup {RefreshKey(ref)}
  /\ UNCHANGED <<clicks, store, now, remote, sub, panelVars, sel, loads, canvas,
                 deleted, lastStatus>>
  /\ UNCHANGED <<composerVars, assets>>
  /\ UNCHANGED editorVars

\* update's read resolves
RefreshUpdateRead ==
  /\ ref.pc = "updRead"
  /\ LET request == ref.list[ref.idx]
         existing == getQueuedRequest(store, Namespace(request.isVideo), request.id)
     IN ref' = IF UpdateGuard(existing)
               THEN [ref EXCEPT !.pc = "updWrite", !.existing = existing]
               ELSE RefreshAt(ref, ref.idx + 1)
  /\ UNCHANGED <<clicks, store, now, remote, sub, panelVars, sel, loads, canvas,
                 deleted, pollErrors, lastStatus>>
  /\ UNCHANGED <<composerVars, assets>>
  /\ UNCHANGED editorVars

\* a loop that shows each fetched result, as the click on a row does
RefreshUpdateWriteLoads ==
  /\ ref.pc = "updWrite"
  /\ LET request == ref.list[ref.idx]
     IN store' = updateQueuedRequest(store, Namespace(request.isVideo), request.id,
                                     ref.existing, ref.updates)
  /\ canvas' = IF Has(ref.updates, "resultVideo")
               THEN loadVideoToCanvas(canvas, ref.updates.resultVideo)
               ELSE IF Has(ref.updates, "resultImages") /\ Len(ref.updates.resultImages) > 0
               THEN loadImageToCanvas(canvas, ref.updates.resultImages)
               ELSE canvas
  /\ lastStatus' = Persisted(store')
  /\ ref' = RefreshAt(ref, ref.idx + 1)
  /\ UNCHANGED <<clicks, now, remote, sub, panelVars, sel, loads, deleted, pollErrors>>
  /\ UNCHANGED <<composerVars, assets>>
  /\ UNCHANGED editorVars

\* update's write resolves
RefreshUpdateWrite ==
  /\ ref.pc = "updWrite"
  /\ LET request == ref.list[ref.idx]
     IN store' = updateQueuedRequest(store, Namespace(request.isVideo), request.id,
                                     ref.existing, ref.updates)
  /\ lastStatus' = Persisted(store')
  /\ ref' = RefreshAt(ref, ref.idx + 1)
  /\ UNCHANGED <<clicks, now, remote, sub, panelVars, sel, loads, canvas, deleted, pollErrors>>
  /\ UNCHANGED <<composerVars, assets>>
  /\ UNCHANGED editorVars

\* await loadQueuedRequests(): the image read resolves
RefreshLoadImages ==
  /\ ref.pc = "loadImages"
  /\ ref' = [ref EXCEPT !.pc = "loadVideos",
                         !.images = getAllQueuedRequests(store, "queue")]
  /\ UNCHANGED <<clicks, store, now, remote, sub, panelVars, sel, loads, canvas,
                 deleted, pollErrors, lastStatus>>
  /\ UNCHANGED <<composerVars, assets>>
  /\ UNCHANGED editorVars

\* the video read resolves: setQueuedRequests, then setIsRefreshing(false)
RefreshLoadVideos ==
  /\ ref.pc = "loadVideos"
  /\ queuedRequests' =
       CombinedRequests(ref.images, getAllQueuedRequests(store, "video-queue"))
  /\ isRefreshing' = FALSE
  /\ ref' = IdleRef
  /\ UNCHANGED <<clicks, store, now, remote, sub, selectedRequestId, sel, loads,
                 canvas, deleted, pollErrors, lastStatus>>
  /\ UNCHANGED <<composerVars, assets>>
  /\ UNCHANGED editorVars

\* ------------------------------------------------------ handleDeleteRequest
\* the user clicks the bin of a row: the delete resolves, then loadQueuedRequests()
\* is called and the selection is cleared if it was this row
DeleteRequest(n) ==
  /\ InFlight < MaxInFlight
  /\ clicks < MaxClicks
  /\ clicks' = clicks + 1
  /\ n \in 1..Len(queuedRequests)
  /\ FreeLoads # {}
  /\ LET request == queuedRequests[n]
         ns == Namespace(request.isVideo)
     IN /\ store' = deleteQueuedRequest(store, ns, request.id)
        /\ deleted' = deleted \cup {getKey(ns, request.id)}
        /\ selectedRequestId' =
             IF selectedRequestId = request.id THEN NoId ELSE selectedRequestId
  /\ loads' = CallLoad(loads)
  /\ UNCHANGED <<now, remote, sub, queuedRequests, isRefreshing, sel, ref,
                 canvas, pollErrors, lastStatus>>
  /\ UNCHANGED <<composerVars, assets>>
  /\ UNCHANGED editorVars

\* ------------------------------------------------- video composer uploads
\* "Upload Start Frame" (disabled={!!videoSourceVideo}): a file is chosen and
\* handleVideoStartFrameUpload awaits blobToBase64(file)
handleVideoStartFrameUpload ==
  /\ videoSourceVideo = Null
  /\ "start" \notin uploads
  /\ uploads' = uploads \cup {"start"}
  /\ UNCHANGED <<store, now, remote, sub, panelVars, sel, ref, loads, canvas, clicks,
                 deleted, pollErrors, lastStatus, assets, videoStartFrame, videoLastFrame,
                 videoSourceVideo>>
  /\ UNCHANGED editorVars

\* blobToBase64 settles: setVideoStartFrame(dataUrl), or the catch block
StartFrameRead(data, ok) ==
  /\ "start" \in uploads
  /\ uploads' = uploads \ {"start"}
  /\ videoStartFrame' = IF ok THEN ImageUrl(data) ELSE videoStartFrame
  /\ UNCHANGED <<store, now, remote, sub, panelVars, sel, ref, loads, canvas, clicks,
                 deleted, pollErrors, lastStatus, assets, videoLastFrame, videoSourceVideo>>
  /\ UNCHANGED editorVars

\* "Upload Last Frame" (disabled={!!videoSourceVideo})
handleVideoLastFrameUpload ==
  /\ videoSourceVideo = Null
  /\ "last" \notin uploads
  /\ uploads' = uploads \cup {"last"}
  /\ UNCHANGED <<store, now, remote, sub, panelVars, sel, ref, loads, canvas, clicks,
                 deleted, pollErrors, lastStatus, assets, videoStartFrame, videoLastFrame,
                 videoSourceVideo>>
  /\ UNCHANGED editorVars

\* blobToBase64 settles: setVideoLastFrame(dataUrl), or the catch block
LastFrameRead(data, ok) ==
  /\ "last" \in uploads
  /\ uploads' = uploads \ {"last"}
  /\ videoLastFrame' = IF ok THEN ImageUrl(data) ELSE videoLastFrame
  /\ UNCHANGED <<store, now, remote, sub, panelVars, sel, ref, loads, canvas, clicks,
                 deleted, pollErrors, lastStatus, assets, videoStartFrame, videoSourceVideo>>
  /\ UNCHANGED editorVars

\* "Upload Video to Extend" (disabled={!!videoStartFrame || !!videoLastFrame})
handleVideoSourceUpload ==
  /\ videoStartFrame = Null /\ videoLastFrame = Null
  /\ "source" \notin uploads
  /\ uploads' = uploads \cup {"source"}
  /\ UNCHANGED <<store, now, remote, sub, panelVars, sel, ref, loads, canvas, clicks,
                 deleted, pollErrors, lastStatus, assets, videoStartFrame, videoLastFrame,
                 videoSourceVideo>>
  /\ UNCHANGED editorVars

\* the frame after a source video was set: setVideoStartFrame(null),
\* setVideoLastFrame(null)
SourceReadClears(frame) == Null

\* blobToBase64 settles: setVideoSourceVideo(dataUrl) and both frames cleared, or
\* the catch block
SourceRead(data, ok) ==
  /\ "source" \in uploads
  /\ uploads' = uploads \ {"source"}
  /\ videoSourceVideo' = IF ok THEN VideoUrl(data) ELSE videoSourceVideo
  /\ videoStartFrame' = IF ok THEN SourceReadClears(videoStartFrame) ELSE videoStartFrame
  /\ videoLastFrame' = IF ok THEN SourceReadClears(videoLastFrame) ELSE videoLastFrame
  /\ UNCHANGED <<store, now, remote, sub, panelVars, sel, ref, loads, canvas, clicks,
                 deleted, pollErrors, lastStatus, assets>>
  /\ UNCHANGED editorVars

\* the remove button of a preview: setVideoStartFrame(null),
\* setVideoLastFrame(null) or setVideoSourceVideo(null)
RemoveVideoInput(kind) ==
  /\ CASE kind = "start" ->
            /\ videoStartFrame # Null
            /\ videoStartFrame' = Null
            /\ UNCHANGED <<videoLastFrame, videoSourceVideo>>
       [] kind = "last" ->
            /\ videoLastFrame # Null
            /\ videoLastFrame' = Null
            /\ UNCHANGED <<videoStartFrame, videoSourceVideo>>
       [] kind = "source" ->
            /\ videoSourceVideo # Null
            /\ videoSourceVideo' = Null
            /\ UNCHANGED <<videoStartFrame, videoLastFrame>>
  /\ UNCHANGED <<store, now, remote, sub, panelVars, sel, ref, loads, canvas, clicks,
                 deleted, pollErrors, lastStatus, assets, uploads>>
  /\ UNCHANGED editorVars

\* ------------------------------------------------------------ specification
\* useAppStore's initial state
\* the image models of the composer (MODEL_OPTIONS) and its resolution tiers
FlashModel == "gemini-2.5-flash-image"
InitialModel == "gemini-3-pro-image-preview"
Models == {FlashModel, InitialModel}
ResolutionTiers == {"1K", "2K", "4K"}
DEFAULT_RESOLUTION_TIER == "1K"

\* useVideoGenerationWithPolling before generate is called: no mutation, no
\* operation name, both queries disabled
\* started counts the calls of generate, videoGenerations the records added by
\* addVideoGeneration; operation is the operation as the remote service holds it
IdleVideoHook ==
  [isGenerating |-> FALSE, mutation |-> "idle", operationName |-> Null,
   generationModel |-> Null, prompt |-> "", operation |-> NULL,
   status |-> NULL, statusFetch |-> "idle", statusError |-> FALSE,
   resultFetch |-> "idle", started |-> 0, videoGenerations |-> 0]

InitialCanvas ==
  [canvasImage |-> Null, canvasImages |-> <<>>, canvasImageIndex |-> 0,
   canvasVideo |-> Null, canvasZoom |-> Zoom1, canvasPan |-> <<0, 0>>]

\* The panel has just mounted: its first loadQueuedRequests() is in flight.
Init ==
  /\ store = <<>>
  /\ now = 0
  /\ remote = [i \in Ids |-> NULL]
  /\ sub = [i \in Ids |-> IdleSub]
  /\ queuedRequests = <<>>
  /\ selectedRequestId = NoId
  /\ isRefreshing = FALSE
  /\ sel = [s \in Selects |-> IdleSel]
  /\ ref = IdleRef
  /\ loads = [l \in 1..MaxLoads |-> IF l = 1 THEN [pc |-> "images", images |-> <<>>]
                                    ELSE IdleLoad]
  /\ canvas = InitialCanvas
  /\ clicks = 0
  /\ deleted = {}
  /\ pollErrors = {}
  /\ lastStatus = <<>>
  /\ videoStartFrame = Null
  /\ videoLastFrame = Null
  /\ videoSourceVideo = Null
  /\ uploads = {}
  /\ assets = [entries |-> <<>>, cleared |-> {}]
  /\ variantCount = 1
  /\ batches = <<>>
  /\ uploadedImages = <<>>
  /\ editReferenceImages = <<>>
  /\ brushStrokes = <<>>
  /\ fileReads = <<>>
  /\ requests = <<>>
  /\ videoHook = IdleVideoHook
  /\ answers = <<>>
  /\ selectedModel = InitialModel
  /\ resolutionTier = DEFAULT_RESOLUTION_TIER

Next ==
  \/ \E i \in Ids, tool \in Tools, prompt \in Prompts : QueueForBatch(i, tool, prompt)
  \/ \E i \in Ids : SaveDone(i)
  \/ \E i \in Ids : SubmitReply(i)
  \/ \E i \in Ids : SubmitThrows(i)
  \/ \E i \in Ids : SubmitUpdateRead(i)
  \/ \E i \in Ids : SubmitUpdateWrite(i)
  \/ \E l \in 1..MaxLoads : LoadImages(l)
  \/ \E l \in 1..MaxLoads : LoadVideos(l)
  \/ \E s \in Selects, n \in 1..MaxRecords : SelectRequest(s, n)
  \/ \E s \in Selects : SelectRead(s)
  \/ \E s \in Selects : SelectStatus(s)
  \/ \E s \in Selects : SelectStatusThrows(s)
  \/ \E s \in Selects : SelectResult(s)
  \/ \E s \in Selects : SelectResultThrows(s)
  \/ \E s \in Selects : SelectUpdateRead(s)
  \/ \E s \in Selects : SelectUpdateWrite(s)
  \/ RefreshAll
  \/ RefreshStatus
  \/ RefreshStatusThrows
  \/ RefreshResult
  \/ RefreshResultThrows
  \/ RefreshUpdateRead
  \/ RefreshUpdateWrite
  \/ RefreshLoadImages
  \/ RefreshLoadVideos
  \/ \E n \in 1..MaxRecords : DeleteRequest(n)
  \/ \E data \in UploadedFiles : FileUpload(data)

Spec == Init /\ [][Next]_vars

\* ------------------------------------------------ reload, cache cleanup
RECURSIVE SubWrites(_, _)
\* the store after the writes that submission flows 1..n have in flight
SubWrites(st, n) ==
  IF n = 0 THEN st
  ELSE LET rest == SubWrites(st, n - 1)
       IN IF sub[n].pc = "saving" THEN saveQueuedRequest(rest, sub[n].ns, sub[n].rec)
          ELSE IF sub[n].pc = "updWrite"
          THEN updateQueuedRequest(rest, sub[n].ns, n, sub[n].existing, sub[n].updates)
          ELSE rest

RECURSIVE SelWrites(_, _)
SelWrites(st, n) ==
  IF n = 0 THEN st
  ELSE LET rest == SelWrites(st, n - 1)
       IN IF sel[n].pc = "updWrite"
          THEN updateQueuedRequest(rest, Namespace(sel[n].isVideo), sel[n].id,
                                   sel[n].existing, sel[n].updates)
          ELSE rest

RefWrite(st) ==
  IF ref.pc = "updWrite"
  THEN updateQueuedRequest(st, Namespace(ref.list[ref.idx].isVideo),
                           ref.list[ref.idx].id, ref.existing, ref.updates)
  ELSE st

\* The page is reloaded: every handler and all in-memory state is gone, the panel
\* mounts again. The writes already handed to IndexedDB either all complete or
\* are all dropped. A remote job whose reply was lost is named by no record.
Reload(commit) ==
  /\ clicks < MaxClicks
  /\ clicks' = clicks + 1
  /\ now' = Later(now)
  /\ store' = IF commit THEN RefWrite(SelWrites(SubWrites(store, MaxRecords), MaxSelects))
               ELSE store
  /\ lastStatus' = Persisted(store')
  /\ sub' = [i \in Ids |-> IF sub[i].pc \in {"idle", "done", "lost"} THEN sub[i]
                            ELSE [Returned(sub[i]) EXCEPT !.pc = "lost"]]
  /\ sel' = [s \in Selects |-> IdleSel]
  /\ ref' = IdleRef
  /\ loads' = [l \in 1..MaxLoads |-> IF l = 1 THEN [pc |-> "images", images |-> <<>>]
                                     ELSE IdleLoad]
  /\ queuedRequests' = <<>>
  /\ selectedRequestId' = NoId
  /\ isRefreshing' = FALSE
  /\ canvas' = InitialCanvas
  /\ videoStartFrame' = Null
  /\ videoLastFrame' = Null
  /\ videoSourceVideo' = Null
  /\ uploads' = {}
  /\ variantCount' = 1
  /\ uploadedImages' = <<>>
  /\ editReferenceImages' = <<>>
  /\ brushStrokes' = <<>>
  /\ fileReads' = <<>>
  /\ videoHook' = IdleVideoHook
  /\ selectedModel' = InitialModel
  /\ resolutionTier' = DEFAULT_RESOLUTION_TIER
  /\ UNCHANGED <<remote, deleted, pollErrors, assets, batches, requests, answers>>

\* CacheService.cacheAsset(asset, data): { asset, data, cachedAt: Date.now() }
CacheAsset(a) ==
  /\ clicks < MaxClicks
  /\ clicks' = clicks + 1
  /\ now' = Later(now)
  /\ assets' = [assets EXCEPT !.entries =
                  IdbSet(assets.entries, getKey("asset", a), [asset |-> a, cachedAt |-> now'])]
  /\ UNCHANGED <<store, remote, sub, panelVars, sel, ref, loads, canvas, deleted,
                 pollErrors, lastStatus>>
  /\ UNCHANGED composerVars
  /\ UNCHANGED editorVars

\* a cleanup that falls back on the age of the record
ExpiredByAge(cached, t, maxAge) ==
  \/ Has(cached, "cachedAt") /\ cached.cachedAt # 0 /\ (t - cached.cachedAt) > maxAge
  \/ Has(cached, "createdAt") /\ (t - cached.createdAt) > maxAge

\* `cached?.cachedAt && (now - cached.cachedAt) > maxAge`
Expired(cached, t, maxAge) ==
  Has(cached, "cachedAt") /\ cached.cachedAt # 0 /\ (t - cached.cachedAt) > maxAge

\* what clearOldCache(maxAge) leaves of the entries st (every key starts with
\* CACHE_PREFIX)
clearOldCache(st, t, maxAge) ==
  [k \in {x \in DOMAIN st : ~Expired(st[x], t, maxAge)} |-> st[k]]

\* CacheService.clearOldCache(maxAge) runs over all keys of the database
ClearOldCache(maxAge) ==
  /\ clicks < MaxClicks
  /\ clicks' = clicks + 1
  /\ store' = clearOldCache(store, now, maxAge)
  /\ assets' = [entries |-> clearOldCache(assets.entries, now, maxAge),
                cleared |-> assets.cleared \cup
                  (DOMAIN assets.entries \ DOMAIN clearOldCache(assets.entries, now, maxAge))]
  /\ UNCHANGED <<now, remote, sub, panelVars, sel, ref, loads, canvas, deleted,
                 pollErrors, lastStatus>>
  /\ UNCHANGED composerVars
  /\ UNCHANGED editorVars

ReloadNext ==
  \/ Next
  \/ \E commit \in BOOLEAN : Reload(commit)
  \/ \E a \in AssetIds : CacheAsset(a)
  \/ \E maxAge \in MaxAges : ClearOldCache(maxAge)

ReloadSpec == Init /\ [][ReloadNext]_vars

\* ------------------------------------------------------------ the canvas
\* The user moves the camera and pages through variants while results are loaded.
handleZoom(delta) ==
  /\ LET sum == canvas.canvasZoom + delta
         newZoom == IF sum > MaxZoom THEN MaxZoom ELSE IF sum < MinZoom THEN MinZoom ELSE sum
     IN canvas' = setCanvasZoom(canvas, newZoom)
  /\ UNCHANGED <<store, now, remote, sub, panelVars, sel, ref, loads, clicks, deleted,
                 pollErrors, lastStatus>>
  /\ UNCHANGED <<composerVars, assets>>
  /\ UNCHANGED editorVars

\* onDragEnd of the stage
DragEnd(pan) ==
  /\ canvas' = setCanvasPan(canvas, pan)
  /\ UNCHANGED <<store, now, remote, sub, panelVars, sel, ref, loads, clicks, deleted,
                 pollErrors, lastStatus>>
  /\ UNCHANGED <<composerVars, assets>>
  /\ UNCHANGED editorVars

\* handlePrevVariant, handleNextVariant
handleVariant(step) ==
  /\ Len(canvas.canvasImages) # 0
  /\ canvas' = setCanvasImageIndex(canvas, canvas.canvasImageIndex + step)
  /\ UNCHANGED <<store, now, remote, sub, panelVars, sel, ref, loads, clicks, deleted,
                 pollErrors, lastStatus>>
  /\ UNCHANGED <<composerVars, assets>>
  /\ UNCHANGED editorVars

\* the panel loads the images of a result
CanvasLoadsImages(images) ==
  /\ canvas' = loadImageToCanvas(canvas, images)
  /\ UNCHANGED <<store, now, remote, sub, panelVars, sel, ref, loads, clicks, deleted,
                 pollErrors, lastStatus>>
  /\ UNCHANGED <<composerVars, assets>>
  /\ UNCHANGED editorVars

\* the panel loads the video of a result
CanvasLoadsVideo(video) ==
  /\ canvas' = loadVideoToCanvas(canvas, video)
  /\ UNCHANGED <<store, now, remote, sub, panelVars, sel, ref, loads, clicks, deleted,
                 pollErrors, lastStatus>>
  /\ UNCHANGED <<composerVars, assets>>
  /\ UNCHANGED editorVars

CanvasNext ==
  \/ \E delta \in {-1, 1} : handleZoom(delta)
  \/ \E pan \in Pans : DragEnd(pan)
  \/ \E step \in {-1, 1} : handleVariant(step)
  \/ \E images \in ImageLists \ {<<>>} : CanvasLoadsImages(images)
  \/ \E video \in VideoPayloads : CanvasLoadsVideo(video)

CanvasSpec == Init /\ [][CanvasNext]_vars

\* ------------------------------------------------- the video composer
\* The user fills the video composer and queues requests.
VideoNext ==
  \/ handleVideoStartFrameUpload
  \/ \E data \in UploadedFiles, ok \in BOOLEAN : StartFrameRead(data, ok)
  \/ handleVideoLastFrameUpload
  \/ \E data \in UploadedFiles, ok \in BOOLEAN : LastFrameRead(data, ok)
  \/ handleVideoSourceUpload
  \/ \E data \in UploadedVideos, ok \in BOOLEAN : SourceRead(data, ok)
  \/ \E kind \in {"start", "last", "source"} : RemoveVideoInput(kind)
  \/ \E i \in Ids, tool \in Tools, prompt \in Prompts : QueueForBatch(i, tool, prompt)
  \/ \E i \in Ids : SaveDone(i)
  \/ \E i \in Ids : SubmitReply(i)
  \/ \E i \in Ids : SubmitThrows(i)
  \/ \E i \in Ids : SubmitUpdateRead(i)
  \/ \E i \in Ids : SubmitUpdateWrite(i)

VideoSpec == Init /\ [][VideoNext]_vars

\* ------------------------------------------- CacheService called directly
\* A caller saves, updates and deletes records of any id and age, one call after
\* the other, while the panel lists them.
StoreSave(ns, id, prompt, t) ==
  /\ clicks < MaxCalls
  /\ clicks' = clicks + 1
  /\ store' = saveQueuedRequest(store, ns,
                 IF ns = "queue" THEN NewQueueRequest(id, "generate", prompt, Null, t)
                 ELSE NewVideoQueueRequest(id, prompt, Null, Null, Null, t))
  /\ lastStatus' = Persisted(store')
  /\ UNCHANGED <<now, remote, sub, panelVars, sel, ref, loads, canvas, deleted,
                 pollErrors>>
  /\ UNCHANGED <<composerVars, assets>>
  /\ UNCHANGED editorVars

StoreUpdate(ns, id, status) ==
  /\ clicks < MaxCalls
  /\ clicks' = clicks + 1
  /\ LET existing == getQueuedRequest(store, ns, id)
     IN store' = IF UpdateGuard(existing)
                 THEN updateQueuedRequest(store, ns, id, existing, [status |-> status])
                 ELSE store
  /\ lastStatus' = Persisted(store')
  /\ UNCHANGED <<now, remote, sub, panelVars, sel, ref, loads, canvas, deleted,
                 pollErrors>>
  /\ UNCHANGED <<composerVars, assets>>
  /\ UNCHANGED editorVars

StoreDelete(ns, id) ==
  /\ clicks < MaxCalls
  /\ clicks' = clicks + 1
  /\ store' = deleteQueuedRequest(store, ns, id)
  /\ deleted' = deleted \cup {getKey(ns, id)}
  /\ UNCHANGED <<now, remote, sub, panelVars, sel, ref, loads, canvas, pollErrors,
                 lastStatus>>
  /\ UNCHANGED <<composerVars, assets>>
  /\ UNCHANGED editorVars

\* the panel mounts: useEffect(() => { loadQueuedRequests(); }, [])
PanelMount ==
  /\ FreeLoads # {}
  /\ loads' = CallLoad(loads)
  /\ UNCHANGED <<clicks, store, now, remote, sub, panelVars, sel, ref, canvas,
                 deleted, pollErrors, lastStatus>>
  /\ UNCHANGED <<composerVars, assets>>
  /\ UNCHANGED editorVars

ListNext ==
  \/ \E ns \in Namespaces, id \in StoredIds, prompt \in Prompts, t \in 1..MaxCreatedAt :
       StoreSave(ns, id, prompt, t)
  \/ \E ns \in Namespaces, id \in StoredIds : StoreUpdate(ns, id, "succeeded")
  \/ \E ns \in Namespaces, id \in StoredIds : StoreDelete(ns, id)
  \/ PanelMount
  \/ \E l \in 1..MaxLoads : LoadImages(l)
  \/ \E l \in 1..MaxLoads : LoadVideos(l)

ListSpec == Init /\ [][ListNext]_vars

\* the same calls of save, update and delete with no panel mounted
StoreNext ==
  \/ \E ns \in Namespaces, id \in StoredIds, prompt \in Prompts, t \in 1..MaxCreatedAt :
       StoreSave(ns, id, prompt, t)
  \/ \E ns \in Namespaces, id \in StoredIds : StoreUpdate(ns, id, "succeeded")
  \/ \E ns \in Namespaces, id \in StoredIds : StoreDelete(ns, id)

StoreSpec == Init /\ [][StoreNext]_vars

\* ------------------------------------------------- the batch endpoints
\* the values the variantCount field of a JSON request body can hold
JsUndefined == [t |-> "undefined"]
JsNull == [t |-> "null"]
JsNumber(n) == [t |-> "number", n |-> n]
JsString(str) == [t |-> "string", s |-> str]
JsBoolean(b) == [t |-> "boolean", b |-> b]

BodyVariantCounts ==
  {JsUndefined, JsNull, JsBoolean(TRUE), JsBoolean(FALSE), JsString(""), JsString("many")}
  \cup {JsNumber(n) : n \in -1..MaxVariants}

\* Number(value): a number, or NaN
NaN == [nan |-> TRUE, n |-> 0]
Num(n) == [nan |-> FALSE, n |-> n]
Number(v) ==
  CASE v.t = "number" -> Num(v.n)
    [] v.t = "undefined" -> NaN
    [] v.t = "null" -> Num(0)
    [] v.t = "boolean" -> Num(IF v.b THEN 1 ELSE 0)
    [] v.t = "string" -> IF v.s = "" THEN Num(0) ELSE NaN

\* a server that sends one request whatever was asked for
RequestCountOne(v) == 1

\* Math.max(1, Number(variantCount) || 1)
RequestCount(v) ==
  LET x == Number(v)
      orOne == IF x.nan \/ x.n = 0 THEN 1 ELSE x.n
  IN IF orOne > 1 THEN orOne ELSE 1

\* Array.from({ length: requestCount }, () => ({ contents, config }))
InlinedRequests(prompt, v) ==
  [k \in 1..RequestCount(v) |-> [contents |-> prompt, config |-> "config"]]

\* useAppStore.setVariantCount(count)
setVariantCount(count) ==
  /\ variantCount' = IF count > 1 THEN count ELSE 1
  /\ UNCHANGED <<queueVars, studioVars, batches, referenceVars>>

\* POST /api/batch/generate and POST /api/batch/edit: one genAI.batches.create
PostBatch(kind, prompt, v) ==
  /\ Len(batches) < MaxJobs
  /\ batches' = Append(batches, [kind |-> kind, variantCount |-> v,
                                  src |-> InlinedRequests(prompt, v)])
  /\ UNCHANGED <<queueVars, studioVars, variantCount, referenceVars>>

\* handleQueueForBatch posts the variant count of the store
ClientPostsBatch(kind, prompt) == PostBatch(kind, prompt, JsNumber(variantCount))

\* POST /api/video/generate: one genAI.models.generateVideos
PostVideoGenerate(prompt) ==
  /\ Len(batches) < MaxJobs
  /\ batches' = Append(batches, [kind |-> "video", operations |-> <<prompt>>])
  /\ UNCHANGED <<queueVars, studioVars, variantCount, referenceVars>>

BatchKinds == {"batch-generate", "batch-edit"}

BatchNext ==
  \/ \E count \in -1..MaxVariants : setVariantCount(count)
  \/ \E kind \in BatchKinds, prompt \in Prompts, v \in BodyVariantCounts :
       PostBatch(kind, prompt, v)
  \/ \E kind \in BatchKinds, prompt \in Prompts : ClientPostsBatch(kind, prompt)
  \/ \E prompt \in Prompts : PostVideoGenerate(prompt)

BatchSpec == Init /\ [][BatchNext]_vars

\* ------------------------------------------- the request an edit is sent with
\* how many strokes the user paints
MaxStrokes == 1

\* selectedTool of the prompt composer
EditorTools == {"generate", "edit", "mask"}

\* const isEditMode = selectedTool === 'edit' || selectedTool === 'mask'
isEditMode(tool) == tool \in {"edit", "mask"}

IsDataUrl(img) == \E d \in ReferenceFiles \cup ImagePayloads : ImageUrl(d) = img
Base64Of(img) == CHOOSE d \in ReferenceFiles \cup ImagePayloads : ImageUrl(d) = img

\* imageSource.filter(img => img.includes('base64,')).map(img => img.split('base64,')[1])
ReferenceImagesOf(imageSource) ==
  LET kept == SelectSeq(imageSource, IsDataUrl)
  IN [k \in 1..Len(kept) |-> Base64Of(kept[k])]

\* the black canvas with the strokes drawn in white, as base64
MaskOf(strokes) == "mask" \o ToString(Len(strokes))

\* the image with the strokes drawn over it in purple, as base64
MaskedReferenceOf(base64Image, strokes) == "masked" \o ToString(Len(strokes)) \o base64Image

\* referenceImages: referenceImages.length > 0 ? referenceImages : undefined
OptionalReferences(referenceImages) ==
  IF Len(referenceImages) > 0 THEN [referenceImages |-> referenceImages] ELSE NULL

\* handleQueueForBatch: the mask is made if (isEditMode && brushStrokes.length > 0 && canvasImage)
QueuedMask(tool, strokes, canvasImage) ==
  IF isEditMode(tool) /\ Len(strokes) > 0 /\ canvasImage # Null
  THEN [maskImage |-> MaskOf(strokes)] ELSE NULL

\* the queueRequest object literal of handleQueueForBatch with its image fields
QueueRequestOf(id, tool, prompt, canvasImage, imageSource, strokes, count, t) ==
  Merge(Merge(Merge(NewQueueRequest(id, tool, prompt, canvasImage, t),
                    OptionalReferences(ReferenceImagesOf(imageSource))),
              QueuedMask(tool, strokes, canvasImage)),
        [variantCount |-> count])

\* the argument of geminiService.submitBatchEditRequest / submitBatchRequest: the same
\* referenceImages, originalImage and maskImage the record was built from
BatchRequestOf(tool, rec) ==
  IF BatchCallFor(tool, rec) = "edit"
  THEN Merge(Merge([instruction |-> rec.prompt, originalImage |-> rec.originalImage,
                    variantCount |-> rec.variantCount],
                   IF Has(rec, "referenceImages")
                   THEN [referenceImages |-> rec.referenceImages] ELSE NULL),
             IF Has(rec, "maskImage") THEN [maskImage |-> rec.maskImage] ELSE NULL)
  ELSE Merge([prompt |-> rec.prompt, variantCount |-> rec.variantCount],
             IF Has(rec, "referenceImages")
             THEN [referenceImages |-> rec.referenceImages] ELSE NULL)

\* useImageEditing, mutationFn: the EditRequest handed to geminiService.editImage;
\* with strokes painted, the masked image is put before the reference images
EditRequestOf(instruction, sourceImage, references, strokes) ==
  LET base64Image == IF IsDataUrl(sourceImage) THEN Base64Of(sourceImage) ELSE sourceImage
      plain == ReferenceImagesOf(references)
      referenceImages == IF Len(strokes) > 0
                         THEN <<MaskedReferenceOf(base64Image, strokes)>> \o plain
                         ELSE plain
  IN Merge(Merge([instruction |-> instruction, originalImage |-> base64Image],
                 OptionalReferences(referenceImages)),
           IF Len(strokes) > 0 THEN [maskImage |-> MaskOf(strokes)] ELSE NULL)

\* handleMouseUp with the mask tool on the canvas image: addBrushStroke
PaintStroke ==
  /\ canvas.canvasImage # Null
  /\ Len(brushStrokes) < MaxStrokes
  /\ brushStrokes' = Append(brushStrokes, "stroke")
  /\ UNCHANGED <<queueVars, studioVars, variantCount, batches, uploadedImages, editReferenceImages,
                 fileReads, requests>>

\* useAppStore: clearBrushStrokes
clearBrushStrokes ==
  /\ brushStrokes' = <<>>
  /\ UNCHANGED <<queueVars, studioVars, variantCount, batches, uploadedImages, editReferenceImages,
                 fileReads, requests>>

\* handleQueueForBatch from the click to the call of the remote job client: the
\* record that is saved and the request that is sent for it
QueueForBatchRequest(tool, prompt) ==
  /\ Len(requests) < MaxJobs
  /\ LET imageSource == IF isEditMode(tool) THEN editReferenceImages ELSE uploadedImages
         rec == QueueRequestOf(Len(requests) + 1, tool, prompt, canvas.canvasImage,
                               imageSource, brushStrokes, variantCount, now)
     IN requests' = Append(requests, [call |-> BatchCallFor(tool, rec), record |-> rec,
                                      body |-> BatchRequestOf(tool, rec)])
  /\ UNCHANGED <<queueVars, studioVars, variantCount, batches, uploadedImages, editReferenceImages,
                 brushStrokes, fileReads>>

\* useImageEditing: the edit is applied at once, through geminiService.editImage
EditImage(instruction) ==
  /\ Len(requests) < MaxJobs
  /\ canvas.canvasImage # Null \/ Len(uploadedImages) > 0
  /\ LET sourceImage == IF canvas.canvasImage # Null THEN canvas.canvasImage
                        ELSE uploadedImages[1]
     IN requests' = Append(requests,
                      [call |-> "editImage", record |-> NULL,
                       body |-> EditRequestOf(instruction, sourceImage,
                                              editReferenceImages, brushStrokes)])
  /\ UNCHANGED <<queueVars, studioVars, variantCount, batches, uploadedImages, editReferenceImages,
                 brushStrokes, fileReads>>

EditNext ==
  \/ \E data \in ReferenceFiles : FileUpload(data)
  \/ PaintStroke
  \/ clearBrushStrokes
  \/ \E tool \in EditorTools, prompt \in Prompts : QueueForBatchRequest(tool, prompt)
  \/ \E instruction \in Prompts : EditImage(instruction)

EditSpec == Init /\ [][EditNext]_vars

\* ------------------------------------------------- reference image uploads
\* how many handleFileUpload calls await their file at the same time
MaxUploads == 2

\* the upload button is disabled while the list of the selected tool is full
UploadDisabled(tool) ==
  \/ tool = "generate" /\ Len(uploadedImages) >= MaxReferenceImages
  \/ tool = "edit" /\ Len(editReferenceImages) >= MaxReferenceImages

\* what the handler created by the last render reads after its await: the selected
\* tool, the length of the list of that tool, and the canvas image
UploadClosure(tool) ==
  [selectedTool |-> tool,
   length |-> IF tool = "generate" THEN Len(uploadedImages)
              ELSE IF tool = "edit" THEN Len(editReferenceImages) ELSE 0,
   canvasImage |-> IF tool = "edit" THEN canvas.canvasImage ELSE Null]

\* handleFileUpload up to `await blobToBase64(file)`: an image file is chosen
handleFileUpload(tool) ==
  /\ Len(fileReads) < MaxUploads
  /\ ~UploadDisabled(tool)
  /\ fileReads' = Append(fileReads, UploadClosure(tool))
  /\ UNCHANGED <<queueVars, studioVars, variantCount, batches, uploadedImages, editReferenceImages,
                 brushStrokes, requests>>

\* blobToBase64 of the k-th waiting handler settles: the branch of the tool that
\* was selected, with the length read from the list the handler was created with,
\* or the catch block
FileRead(k, data, ok) ==
  /\ k \in 1..Len(fileReads)
  /\ fileReads' = [j \in 1..(Len(fileReads) - 1) |->
                     IF j < k THEN fileReads[j] ELSE fileReads[j + 1]]
  /\ LET f == fileReads[k]
         dataUrl == ImageUrl(data)
     IN IF ~ok THEN UNCHANGED <<uploadedImages, editReferenceImages, canvas>>
        ELSE IF f.selectedTool = "generate"
        THEN /\ uploadedImages' = IF f.length < MaxReferenceImages
                                   THEN addImage(uploadedImages, dataUrl)
                                   ELSE uploadedImages
             /\ UNCHANGED <<editReferenceImages, canvas>>
        ELSE IF f.selectedTool = "edit"
        THEN /\ editReferenceImages' = IF f.length < MaxReferenceImages
                                        THEN addImage(editReferenceImages, dataUrl)
                                        ELSE editReferenceImages
             /\ canvas' = IF f.canvasImage = Null THEN setCanvasImage(canvas, dataUrl)
                          ELSE canvas
             /\ UNCHANGED uploadedImages
        ELSE /\ uploadedImages' = addImage(<<>>, dataUrl)
             /\ canvas' = setCanvasImage(canvas, dataUrl)
             /\ UNCHANGED editReferenceImages
  /\ UNCHANGED <<store, now, remote, sub, panelVars, sel, ref, loads, clicks, deleted,
                 pollErrors, lastStatus, composerVars, assets>>
  /\ UNCHANGED <<studioVars, variantCount, batches, brushStrokes, requests>>

\* the remove button of the reference image at index
RemoveReferenceImage(tool, index) ==
  /\ IF tool = "generate"
     THEN /\ index < Len(uploadedImages)
          /\ uploadedImages' = removeImage(uploadedImages, index)
          /\ UNCHANGED editReferenceImages
     ELSE /\ index < Len(editReferenceImages)
          /\ editReferenceImages' = removeImage(editReferenceImages, index)
          /\ UNCHANGED uploadedImages
  /\ UNCHANGED <<queueVars, studioVars, variantCount, batches, brushStrokes, fileReads, requests>>

\* handleClearSession: the lists, the strokes, the canvas and the video composer
\* are emptied; the handlers that wait for their file go on
handleClearSession ==
  /\ uploadedImages' = <<>>
  /\ editReferenceImages' = <<>>
  /\ brushStrokes' = <<>>
  /\ canvas' = setCanvasVideo(setCanvasImage(canvas, Null), Null)
  /\ variantCount' = 1
  /\ videoStartFrame' = Null
  /\ videoLastFrame' = Null
  /\ videoSourceVideo' = Null
  /\ resolutionTier' = DEFAULT_RESOLUTION_TIER
  /\ UNCHANGED <<store, now, remote, sub, panelVars, sel, ref, loads, clicks, deleted,
                 pollErrors, lastStatus, uploads, assets, batches, fileReads, requests,
                 videoHook, answers, selectedModel>>

UploadNext ==
  \/ \E tool \in EditorTools : handleFileUpload(tool)
  \/ \E k \in 1..MaxUploads, data \in UploadedFiles, ok \in BOOLEAN : FileRead(k, data, ok)
  \/ \E tool \in EditorTools, index \in 0..MaxReferenceImages :
       RemoveReferenceImage(tool, index)
  \/ handleClearSession

UploadSpec == Init /\ [][UploadNext]_vars

\* ------------------------------------------------- refreshing again and again
\* the refresh button, clicked as often as the user likes
RefreshAgain ==
  /\ InFlight < MaxInFlight
  /\ ~isRefreshing
  /\ ref.pc = "idle"
  /\ isRefreshing' = TRUE
  /\ ref' = RefreshAt([IdleRef EXCEPT !.list = queuedRequests,
                                       !.polls = [k \in 1..Len(queuedRequests) |-> 0]], 1)
  /\ UNCHANGED <<store, now, remote, sub, queuedRequests, selectedRequestId,
                 sel, loads, canvas, clicks, deleted, pollErrors, lastStatus>>
  /\ UNCHANGED <<composerVars, assets>>
  /\ UNCHANGED editorVars

\* the steps of handleQueueForBatch / handleVideoQueueForBatch after an await
SubmitStep(i) ==
  \/ SaveDone(i)
  \/ SubmitReply(i)
  \/ SubmitThrows(i)
  \/ SubmitUpdateRead(i)
  \/ SubmitUpdateWrite(i)

\* the steps of loadQueuedRequests after an await
LoadStep(l) == LoadImages(l) \/ LoadVideos(l)

\* the steps of handleRefreshAll after an await
RefreshStep ==
  \/ RefreshStatus
  \/ RefreshStatusThrows
  \/ RefreshResult
  \/ RefreshResultThrows
  \/ RefreshUpdateRead
  \/ RefreshUpdateWrite
  \/ RefreshLoadImages
  \/ RefreshLoadVideos

\* how many records are queued while the user keeps refreshing
MaxReconciled == 1

ReconcileNext ==
  \/ \E i \in 1..MaxReconciled, tool \in Tools, prompt \in Prompts :
       QueueForBatch(i, tool, prompt)
  \/ \E i \in Ids : SubmitStep(i)
  \/ \E l \in 1..MaxLoads : LoadStep(l)
  \/ RefreshAgain
  \/ RefreshStep
  \/ \E n \in 1..MaxRecords : DeleteRequest(n)

\* the job or operation has reached a final state
IsFinal(job) == job # NULL /\ FinalStates(job) = {}

\* the refresh is at the status query / the result fetch of the job of record i
RefreshPollsJob(i, pc) ==
  /\ ref.pc = pc
  /\ JobOf(RefreshName(ref)) = i

\* the status query for the job of record i is answered, and finds the job finished
StatusFindsFinal(i) ==
  /\ RefreshPollsJob(i, "status")
  /\ RefreshStatus
  /\ IsFinal(remote'[i])

\* the result fetch for the job of record i is answered
ResultFetched(i) ==
  /\ RefreshPollsJob(i, "result")
  /\ RefreshResult

\* the user keeps clicking refresh; a job that is queried again and again is found
\* finished, and a result that is fetched again and again is delivered
KeepsRefreshing ==
  /\ WF_vars(RefreshAgain)
  /\ \A i \in Ids : SF_vars(StatusFindsFinal(i))
  /\ \A i \in Ids : SF_vars(ResultFetched(i))

\* every await settles: a call to IndexedDB resolves, a call to the proxy resolves
\* or is rejected
AwaitsSettle ==
  /\ \A i \in Ids : WF_vars(SubmitStep(i))
  /\ \A l \in 1..MaxLoads : WF_vars(LoadStep(l))
  /\ WF_vars(RefreshStep)

\* the runs in which the awaits settle, the user keeps refreshing and the remote
\* service answers in the end
ReconcileSpec == Init /\ [][ReconcileNext]_vars /\ AwaitsSettle /\ KeepsRefreshing

\* the runs in which the awaits settle, whatever the user and the remote service do
SettleSpec == Init /\ [][ReconcileNext]_vars /\ AwaitsSettle

\* ------------------------------------------------------ overlapping selects
\* A row is clicked while the handleSelectRequest of an earlier click is still at
\* one of its awaits: each click starts a new call, none is cancelled.
MaxOverlap == 2
OverlapSelects == 1..MaxOverlap

\* an image request that was queued and submitted, its job still running, and a
\* video request whose result an earlier refresh has stored
SubmittedImage ==
  Merge(NewQueueRequest(1, "generate", "p", Null, 1), SubmittedUpdates(JobName(1), 1))
SucceededVideo ==
  Merge(Merge(NewVideoQueueRequest(2, "p", Null, Null, Null, 2),
              VideoSubmittedUpdates(JobName(2), 2)),
        VideoSucceededUpdates("V", 2))
OverlapStore ==
  saveQueuedRequest(saveQueuedRequest(<<>>, "queue", SubmittedImage),
                    "video-queue", SucceededVideo)

\* the panel lists the two records and no handler is running
OverlapInit ==
  /\ store = OverlapStore
  /\ now = 2
  /\ remote = [i \in Ids |-> IF i = 1 THEN [state |-> "JOB_STATE_PENDING"]
                             ELSE [done |-> TRUE, video |-> "V"]]
  /\ sub = [i \in Ids |-> [IdleSub EXCEPT !.pc = "done"]]
  /\ queuedRequests = CombinedRequests(getAllQueuedRequests(OverlapStore, "queue"),
                                       getAllQueuedRequests(OverlapStore, "video-queue"))
  /\ selectedRequestId = NoId
  /\ isRefreshing = FALSE
  /\ sel = [s \in OverlapSelects |-> IdleSel]
  /\ ref = IdleRef
  /\ loads = [l \in 1..MaxLoads |-> IdleLoad]
  /\ canvas = InitialCanvas
  /\ clicks = 0
  /\ deleted = {}
  /\ pollErrors = {}
  /\ lastStatus = [k \in DOMAIN OverlapStore |-> OverlapStore[k].status]
  /\ videoStartFrame = Null
  /\ videoLastFrame = Null
  /\ videoSourceVideo = Null
  /\ uploads = {}
  /\ assets = [entries |-> <<>>, cleared |-> {}]
  /\ variantCount = 1
  /\ batches = <<>>
  /\ uploadedImages = <<>>
  /\ editReferenceImages = <<>>
  /\ brushStrokes = <<>>
  /\ fileReads = <<>>
  /\ requests = <<>>
  /\ videoHook = IdleVideoHook
  /\ answers = <<>>
  /\ selectedModel = InitialModel
  /\ resolutionTier = DEFAULT_RESOLUTION_TIER

OverlapNext ==
  \/ \E s \in OverlapSelects, n \in 1..MaxRecords : SelectRequest(s, n)
  \/ \E s \in OverlapSelects : SelectRead(s)
  \/ \E s \in OverlapSelects : SelectStatus(s)
  \/ \E s \in OverlapSelects : SelectStatusThrows(s)
  \/ \E s \in OverlapSelects : SelectResult(s)
  \/ \E s \in OverlapSelects : SelectResultThrows(s)
  \/ \E s \in OverlapSelects : SelectUpdateRead(s)
  \/ \E s \in OverlapSelects : SelectUpdateWrite(s)
  \/ \E l \in 1..MaxLoads : LoadImages(l)
  \/ \E l \in 1..MaxLoads : LoadVideos(l)

OverlapSpec == OverlapInit /\ [][OverlapNext]_vars

\* ------------------------------------------------- direct video generation
\* useVideoGenerationWithPolling: generate starts the operation, the status query
\* polls it every 5 seconds, the result query fetches the video once the status
\* is SUCCEEDED, and the effects release the busy state.
MaxGenerations == 5

\* isGenerating of useVideoGenerationWithPolling:
\* videoGeneration.isStarting || !!videoGeneration.operationName
HookIsGenerating(h) == h.mutation = "pending" \/ h.operationName # Null

\* onComplete: clearOperation() and setPrompt(''); with the name gone both
\* queries are disabled and hold no data
OperationCleared(h) ==
  [h EXCEPT !.operationName = Null, !.generationModel = Null, !.prompt = "",
            !.status = NULL, !.statusFetch = "idle", !.statusError = FALSE,
            !.resultFetch = "idle"]

\* the generate button is enabled: handleVideoGenerate, setPrompt, mutate, onMutate
handleVideoGenerate(prompt) ==
  /\ ~videoHook.isGenerating
  /\ ~HookIsGenerating(videoHook)
  /\ videoHook.started < MaxGenerations
  /\ videoHook' = [videoHook EXCEPT !.prompt = prompt, !.mutation = "pending",
                                    !.isGenerating = TRUE, !.started = @ + 1]
  /\ UNCHANGED <<queueVars, variantCount, batches, referenceVars, answers,
                 selectedModel, resolutionTier>>

\* geminiService.generateVideo resolves: onSuccess; the status query is enabled
StartReplies ==
  /\ videoHook.mutation = "pending"
  /\ videoHook' = [videoHook EXCEPT !.mutation = "success",
                                    !.operationName = JobName(videoHook.started),
                                    !.generationModel = "veo",
                                    !.operation = [done |-> FALSE],
                                    !.statusFetch = "fetching"]
  /\ UNCHANGED <<queueVars, variantCount, batches, referenceVars, answers,
                 selectedModel, resolutionTier>>

\* geminiService.generateVideo is rejected: onError
StartThrows ==
  /\ videoHook.mutation = "pending"
  /\ videoHook' = [videoHook EXCEPT !.mutation = "error", !.isGenerating = FALSE]
  /\ UNCHANGED <<queueVars, variantCount, batches, referenceVars, answers,
                 selectedModel, resolutionTier>>

\* the status query resolves. RUNNING: it is fetched again after the interval.
\* FAILED: the effect calls setIsGenerating(false) and onComplete. SUCCEEDED: the
\* polling stops and the result query is enabled.
StatusReplies ==
  /\ videoHook.statusFetch = "fetching"
  /\ \E op \in Observed(videoHook.operation) :
       LET status == OperationStatus(op)
           h == [videoHook EXCEPT !.operation = op, !.status = status,
                                  !.statusError = FALSE]
       IN videoHook' =
            IF status.state = "FAILED"
            THEN [OperationCleared(h) EXCEPT !.isGenerating = FALSE]
            ELSE IF status.state = "SUCCEEDED"
            THEN [h EXCEPT !.statusFetch = "idle", !.resultFetch = "fetching"]
            ELSE h
  /\ UNCHANGED <<queueVars, variantCount, batches, referenceVars, answers,
                 selectedModel, resolutionTier>>

\* the status query is rejected: refetchInterval still gives 5000, the polling
\* goes on
StatusThrows ==
  /\ videoHook.statusFetch = "fetching"
  /\ videoHook' = [videoHook EXCEPT !.statusError = TRUE]
  /\ UNCHANGED <<queueVars, variantCount, batches, referenceVars, answers,
                 selectedModel, resolutionTier>>

\* the result query resolves: the effect adds the generation, shows the video,
\* calls setIsGenerating(false) and onComplete
ResultReplies ==
  /\ videoHook.resultFetch = "fetching"
  /\ ~OperationResultThrows(videoHook.operation)
  /\ LET result == OperationResult(videoHook.operation)
     IN /\ canvas' = setCanvasVideo(canvas, VideoUrl(result.video))
        /\ videoHook' = [OperationCleared(videoHook) EXCEPT
                           !.isGenerating = FALSE, !.videoGenerations = @ + 1]
  /\ UNCHANGED <<store, now, remote, sub, panelVars, sel, ref, loads, clicks, deleted,
                 pollErrors, lastStatus, composerVars, assets>>
  /\ UNCHANGED <<variantCount, batches, referenceVars, answers, selectedModel,
                 resolutionTier>>

\* the result query is rejected (the download fails, the proxy answers with an
\* error): the query holds the error, no effect runs
ResultThrows ==
  /\ videoHook.resultFetch = "fetching"
  /\ videoHook' = [videoHook EXCEPT !.resultFetch = "error"]
  /\ UNCHANGED <<queueVars, variantCount, batches, referenceVars, answers,
                 selectedModel, resolutionTier>>

DirectVideoNext ==
  \/ \E prompt \in Prompts : handleVideoGenerate(prompt)
  \/ StartReplies
  \/ StartThrows
  \/ StatusReplies
  \/ StatusThrows
  \/ ResultReplies
  \/ ResultThrows

\* a status query is answered and finds the operation finished
StatusFindsEnd == StatusReplies /\ IsFinal(videoHook'.operation)

\* every call settles, and the remote operation ends and is seen to have ended
CallsSettle ==
  /\ WF_vars(StartReplies \/ StartThrows)
  /\ WF_vars(ResultReplies \/ ResultThrows)
  /\ SF_vars(StatusFindsEnd)

DirectVideoSpec == Init /\ [][DirectVideoNext]_vars /\ CallsSettle

\* ----------------------------------------------- the operation endpoints
\* The proxy is asked for the status and for the result of operations in every
\* state the remote service reports: running (done left out, or false), done
\* with an error, done with a video, done with a response that holds no video.
MaxAnswers == 2

RemoteOperations ==
  {[name |-> "op"], [done |-> FALSE]}
  \cup {[done |-> TRUE, error |-> m] : m \in OpErrors}
  \cup {[done |-> TRUE, video |-> v] : v \in VideoPayloads}
  \cup {[done |-> TRUE]}

\* GET /api/video/operation/status?name=...
GetOperationStatus(op) ==
  /\ Len(answers) < MaxAnswers
  /\ answers' = Append(answers, [endpoint |-> "status", operation |-> op,
                                 body |-> OperationStatus(op)])
  /\ UNCHANGED <<queueVars, variantCount, batches, referenceVars, videoHook,
                 selectedModel, resolutionTier>>

\* GET /api/video/operation/result?name=...
GetOperationResult(op) ==
  /\ Len(answers) < MaxAnswers
  /\ answers' = Append(answers, [endpoint |-> "result", operation |-> op,
                                 body |-> IF OperationResultThrows(op)
                                          THEN OperationResultError(op)
                                          ELSE OperationResult(op)])
  /\ UNCHANGED <<queueVars, variantCount, batches, referenceVars, videoHook,
                 selectedModel, resolutionTier>>

ProxyNext ==
  \/ \E op \in RemoteOperations : GetOperationStatus(op)
  \/ \E op \in RemoteOperations : GetOperationResult(op)

ProxySpec == Init /\ [][ProxyNext]_vars

\* ------------------------------------------------- the canvas image setters
\* The three setters of the canvas image are called in any order, with any list
\* of urls and any index.
MaxCanvasImages == 5
MaxIndex == 7

CanvasUrls == {ImageUrl(d) : d \in ImagePayloads}
CanvasUrlLists == UNION {[1..n -> CanvasUrls] : n \in 0..MaxCanvasImages}

SetImage(url) ==
  /\ canvas' = setCanvasImage(canvas, url)
  /\ UNCHANGED <<store, now, remote, sub, panelVars, sel, ref, loads, clicks, deleted,
                 pollErrors, lastStatus, composerVars, assets>>
  /\ UNCHANGED editorVars

SetImages(urls) ==
  /\ canvas' = setCanvasImages(canvas, urls)
  /\ UNCHANGED <<store, now, remote, sub, panelVars, sel, ref, loads, clicks, deleted,
                 pollErrors, lastStatus, composerVars, assets>>
  /\ UNCHANGED editorVars

SetImageIndex(index) ==
  /\ canvas' = setCanvasImageIndex(canvas, index)
  /\ UNCHANGED <<store, now, remote, sub, panelVars, sel, ref, loads, clicks, deleted,
                 pollErrors, lastStatus, composerVars, assets>>
  /\ UNCHANGED editorVars

CanvasImageNext ==
  \/ \E url \in CanvasUrls \cup {Null} : SetImage(url)
  \/ \E urls \in CanvasUrlLists : SetImages(urls)
  \/ \E index \in (0 - MaxIndex)..MaxIndex : SetImageIndex(index)

CanvasImageSpec == Init /\ [][CanvasImageNext]_vars

\* ------------------------------------------------------ the model settings
\* The user changes the image model and the resolution tier, in the composer and
\* in the settings panel, while working on a session and clearing it.

\* useAppStore.setSelectedModel(model): the new model and the new tier
setSelectedModel(model, tier) ==
  [selectedModel |-> model,
   resolutionTier |-> IF model = FlashModel THEN "1K" ELSE tier]

\* a tier select that takes every tier under every model
TierChangeAlwaysTaken(model, tier) == FALSE

\* `if (isFlashModel && tier !== '1K') return`
TierChangeRefused(model, tier) == model = FlashModel /\ tier # "1K"

\* handleModelChange(value): setSelectedModel, then for the flash model
\* setResolutionTier(DEFAULT_RESOLUTION_TIER)
handleModelChange(value) ==
  /\ LET set == setSelectedModel(value, resolutionTier)
     IN /\ selectedModel' = set.selectedModel
        /\ resolutionTier' = IF value = FlashModel THEN DEFAULT_RESOLUTION_TIER
                              ELSE set.resolutionTier
  /\ UNCHANGED <<queueVars, variantCount, batches, referenceVars, videoHook, answers>>

\* the model select of the settings panel: onChange calls setSelectedModel
SettingsModelChange(value) ==
  /\ LET set == setSelectedModel(value, resolutionTier)
     IN /\ selectedModel' = set.selectedModel
        /\ resolutionTier' = set.resolutionTier
  /\ UNCHANGED <<queueVars, variantCount, batches, referenceVars, videoHook, answers>>

\* handleResolutionTierChange(tier)
handleResolutionTierChange(tier) ==
  /\ resolutionTier' = IF TierChangeRefused(selectedModel, tier) THEN resolutionTier
                        ELSE tier
  /\ UNCHANGED <<queueVars, variantCount, batches, referenceVars, videoHook, answers,
                 selectedModel>>

SettingsNext ==
  \/ \E value \in Models : handleModelChange(value)
  \/ \E value \in Models : SettingsModelChange(value)
  \/ \E tier \in ResolutionTiers : handleResolutionTierChange(tier)
  \/ handleClearSession
  \/ \E count \in -1..MaxVariants : setVariantCount(count)
  \/ \E data \in ReferenceFiles : FileUpload(data)
  \/ PaintStroke
  \/ clearBrushStrokes

SettingsSpec == Init /\ [][SettingsNext]_vars

\* ------------------------------------------------------------- properties
SubKey(i) == getKey(sub[i].ns, i)
RemoteIdField(k) == IF TypeOfKey(k) = "video-queue" THEN "operationName" ELSE "batchJobName"
Terminal == {"succeeded", "failed"}

\* C1: whenever the remote submission call of a record is in flight or has
\* completed, the store has held that record: it is stored with status pending
\* while the call is in flight, unless the user deleted it in between, and no
\* remote job exists for a record that was never stored.
C1_PersistBeforeNetwork ==
  \A i \in Ids :
    /\ sub[i].pc = "calling" =>
         \/ SubKey(i) \in deleted
         \/ SubKey(i) \in DOMAIN store /\ store[SubKey(i)].status = "pending"
    /\ sub[i].pc \in {"calling", "updRead", "updWrite", "done"} =>
         SubKey(i) \in DOMAIN lastStatus
    /\ remote[i] # NULL => sub[i].pc \in {"updRead", "updWrite", "done"}

\* an image submission and a video submission both have their remote call in
\* flight, and both records are stored as pending
C1_Witness ==
  \E i, j \in Ids :
    /\ sub[i].pc = "calling" /\ sub[i].ns = "queue"
    /\ sub[j].pc = "calling" /\ sub[j].ns = "video-queue"
    /\ \A k \in {SubKey(i), SubKey(j)} : k \in DOMAIN store /\ store[k].status = "pending"

StatusRank(status) ==
  CASE status = "pending" -> 0
    [] status = "submitted" -> 1
    [] status = "processing" -> 2
    [] OTHER -> 3

\* C2: under every interleaving of submissions, selects, refreshes and deletes,
\* each write to the store leaves a record's status where it was or moves it
\* forward along pending -> submitted -> processing -> succeeded | failed; a
\* record is first stored as pending, and a succeeded or failed record keeps
\* its status.
C2_StatusMonotone ==
  [][\A k \in DOMAIN store' :
       IF k \in DOMAIN lastStatus
       THEN \/ store'[k].status = lastStatus[k]
            \/ /\ lastStatus[k] \notin Terminal
               /\ StatusRank(lastStatus[k]) < StatusRank(store'[k].status)
       ELSE store'[k].status = "pending"]_vars

\* a record went pending -> submitted -> succeeded, and the refresh holds the
\* write of a second, overlapping poll of the same record
C2_Witness ==
  /\ ref.pc = "updWrite"
  /\ RefreshKey(ref) \in DOMAIN store
  /\ store[RefreshKey(ref)].status = "succeeded"
  /\ ref.list[ref.idx].status = "submitted"

HasResult(r) == TruthyLen(r, "resultImages") \/ TruthyStr(r, "resultVideo")

\* C3: every stored record has a non-empty result exactly when its status is
\* succeeded, and a non-empty error message exactly when its status is failed.
C3_ResultErrorExclusive ==
  \A k \in DOMAIN store :
    /\ HasResult(store[k]) <=> store[k].status = "succeeded"
    /\ TruthyStr(store[k], "error") <=> store[k].status = "failed"

\* C4: once the delete of a record has completed, no later step of an update
\* that was already in progress puts a record back under that id.
C4_DeleteNotResurrected == \A k \in deleted : k \notin DOMAIN store

\* C5: run one after the other, a delete of an id that is not stored and an
\* update of an id that is not stored leave the store as it is: the delete
\* removes nothing else, the update finds no record and issues no write.
C5_DeleteUpdateIdempotent ==
  [][/\ \A n \in 1..MaxRecords :
          (/\ n <= Len(queuedRequests)
           /\ getKey(Namespace(queuedRequests[n].isVideo), queuedRequests[n].id)
                \notin DOMAIN store
           /\ DeleteRequest(n)) => store' = store
     /\ \A i \in Ids :
          (sub[i].pc = "updRead" /\ SubKey(i) \notin DOMAIN store /\ sub'[i] # sub[i])
            => store' = store /\ sub'[i].pc = "done"
     /\ \A s \in Selects :
          (/\ sel[s].pc = "updRead"
           /\ getKey(Namespace(sel[s].isVideo), sel[s].id) \notin DOMAIN store
           /\ sel'[s] # sel[s]) => store' = store /\ sel'[s].pc = "idle"
     /\ (ref.pc = "updRead" /\ RefreshKey(ref) \notin DOMAIN store /\ ref' # ref)
          => store' = store /\ ref'.pc \in {"status", "loadImages"}]_vars

\* a submission's update ran on an id the user had deleted: the handler has
\* returned, the record is gone, and the status last stored is still pending
C5_Witness ==
  \E i \in Ids :
    /\ sub[i].pc = "done"
    /\ SubKey(i) \in deleted
    /\ SubKey(i) \notin DOMAIN store
    /\ lastStatus[SubKey(i)] = "pending"

\* C6: when the status query or the result fetch of a poll throws, the handler
\* writes nothing and calls no update: the record stays as it is, never marked
\* failed, and the flow goes on (select returns, refresh moves to its next
\* entry).
C6_PollFailureLeavesRecord ==
  [][/\ \A s \in Selects :
          (SelectStatusThrows(s) \/ SelectResultThrows(s))
            => store' = store /\ sel'[s].pc = "idle"
     /\ (RefreshStatusThrows \/ RefreshResultThrows)
          => store' = store /\ ref'.pc \in {"status", "loadImages"}]_vars

\* a poll of a record threw, every handler has returned, and the record is
\* still stored as submitted with its remote job name
C6_Witness ==
  \E k \in pollErrors :
    /\ k \in DOMAIN store
    /\ store[k].status = "submitted"
    /\ TruthyStr(store[k], RemoteIdField(k))
    /\ ref.pc = "idle"
    /\ \A s \in Selects : sel[s].pc = "idle"

\* C7: when a submission handler has returned and its record is still stored,
\* the record is not pending: if the remote call succeeded it carries the name
\* the call returned and a submittedAt time; if the call threw it is failed
\* with the thrown message as its error.
C7_SubmissionOutcomePersisted ==
  \A i \in Ids :
    (sub[i].pc = "done" /\ SubKey(i) \in DOMAIN store) =>
      LET r == store[SubKey(i)]
      IN /\ r.status # "pending"
         /\ remote[i] # NULL =>
              /\ r.status \in {"submitted", "succeeded", "failed"}
              /\ Has(r, RemoteIdField(SubKey(i)))
              /\ r[RemoteIdField(SubKey(i))] \in {JobName(i), ""}
              /\ Has(r, "submittedAt")
              /\ r.submittedAt >= r.createdAt
         /\ remote[i] = NULL =>
              /\ r.status = "failed"
              /\ Has(r, "error")
              /\ r.error \in (IF sub[i].call = "video" THEN VideoSubmitErrors
                              ELSE {SubmitErrorMessage(sub[i].call)})

\* one submission has finished as submitted and another as failed
C7_Witness ==
  \E i, j \in Ids :
    /\ sub[i].pc = "done" /\ sub[j].pc = "done"
    /\ remote[i] # NULL /\ remote[j] = NULL
    /\ SubKey(i) \in DOMAIN store /\ store[SubKey(i)].status = "submitted"
    /\ SubKey(j) \in DOMAIN store /\ store[SubKey(j)].status = "failed"

\* C8: every stored record whose status is not pending has a non-empty remote
\* identifier (batchJobName for image records, operationName for video records).
C8_RemoteIdNonEmpty ==
  \A k \in DOMAIN store :
    store[k].status # "pending" => TruthyStr(store[k], RemoteIdField(k))

\* the same for submitted records only
C8_SubmittedHasRemoteId ==
  \A k \in DOMAIN store :
    store[k].status = "submitted" => TruthyStr(store[k], RemoteIdField(k))

\* the record a select reads when its fresh read resolves
FreshOf(s) == getQueuedRequest(store, Namespace(sel[s].isVideo), sel[s].id)

\* C9: when the fresh read of a select finds a succeeded record, the handler
\* issues no remote call and loads the stored result into the canvas.
C9_SelectSucceededLoadsStored ==
  [][\A s \in Selects :
       (/\ sel[s].pc = "read"
        /\ sel'[s] # sel[s]
        /\ FreshOf(s) # NULL
        /\ FreshOf(s).status = "succeeded")
       => /\ sel'[s].pc = "idle"
          /\ remote' = remote
          /\ canvas' = IF sel[s].isVideo
                       THEN loadVideoToCanvas(canvas, FreshOf(s).resultVideo)
                       ELSE loadImageToCanvas(canvas, FreshOf(s).resultImages)]_vars

\* the statuses from which the specification has a select poll
NonTerminalWithRemoteId(isVideo, r) ==
  IF isVideo
  THEN r.status \in {"submitted", "processing"} /\ TruthyStr(r, "operationName")
  ELSE r.status = "submitted" /\ TruthyStr(r, "batchJobName")

\* C10: when the fresh read of a select finds a record that is not terminal
\* and has a remote identifier (image: submitted; video: submitted or
\* processing), the handler issues exactly one status query.
C10_SelectPollsOnce ==
  [][\A s \in Selects :
       /\ sel'[s].nStatus <= 1
       /\ (/\ sel[s].pc = "read"
           /\ sel'[s] # sel[s]
           /\ FreshOf(s) # NULL
           /\ NonTerminalWithRemoteId(sel[s].isVideo, FreshOf(s)))
          => sel'[s].pc = "status" /\ sel'[s].nStatus = 1]_vars

\* the same for image records only
C10_ImageSelectPollsOnce ==
  [][\A s \in Selects :
       /\ sel'[s].nStatus <= 1
       /\ (/\ sel[s].pc = "read"
           /\ sel'[s] # sel[s]
           /\ ~sel[s].isVideo
           /\ FreshOf(s) # NULL
           /\ NonTerminalWithRemoteId(FALSE, FreshOf(s)))
          => sel'[s].pc = "status" /\ sel'[s].nStatus = 1]_vars

\* the key of the record a select works on, and the images its job holds
SelKey(s) == getKey(Namespace(sel[s].isVideo), sel[s].id)
SelJobImages(s) == remote[JobOf(sel[s].name)].images

\* the write of a select that polled an image record whose job succeeded
SelectWritesImages(s) ==
  /\ sel[s].pc = "updWrite"
  /\ ~sel[s].isVideo
  /\ Has(sel[s].result, "images")
  /\ sel'[s].pc = "idle"

\* C11: when a select polls a submitted image record, the remote reports
\* JOB_STATE_SUCCEEDED and the results fetch returns N images, the record is
\* stored as succeeded with exactly those N images in order and completedAt
\* set; the canvas is untouched until that write and is then loaded with all N
\* images.
C11_SelectHappyPath ==
  [][\A s \in Selects :
       /\ (/\ sel[s].pc \in {"status", "result", "updRead"}
           /\ sel'[s].pc \in {"result", "updRead", "updWrite"}
           /\ sel'[s].pc # sel[s].pc) => canvas' = canvas
       /\ SelectWritesImages(s) =>
            /\ store'[SelKey(s)].status = "succeeded"
            /\ store'[SelKey(s)].resultImages = SelJobImages(s)
            /\ Has(store'[SelKey(s)], "completedAt")
            /\ canvas' = loadImageToCanvas(canvas, SelJobImages(s))]_vars

\* the same when the results fetch returns at least one image
C11_SelectHappyPathNonEmpty ==
  [][\A s \in Selects :
       /\ (/\ sel[s].pc \in {"status", "result", "updRead"}
           /\ sel'[s].pc \in {"result", "updRead", "updWrite"}
           /\ sel'[s].pc # sel[s].pc) => canvas' = canvas
       /\ (SelectWritesImages(s) /\ Len(SelJobImages(s)) > 0) =>
            /\ store'[SelKey(s)].status = "succeeded"
            /\ store'[SelKey(s)].resultImages = SelJobImages(s)
            /\ Has(store'[SelKey(s)], "completedAt")
            /\ store'[SelKey(s)].completedAt >= store'[SelKey(s)].submittedAt
            /\ canvas' = loadImageToCanvas(canvas, SelJobImages(s))
            /\ canvas'.canvasImages =
                 [n \in 1..Len(SelJobImages(s)) |-> ImageUrl(SelJobImages(s)[n])]]_vars

\* the remote state a finished poll of an image record saw
SelJobState(s) == BatchState(remote[JobOf(sel[s].name)])
RefJobState == BatchState(remote[JobOf(RefreshName(ref))])
RemoteFailures == {"JOB_STATE_FAILED", "JOB_STATE_CANCELLED"}

\* the write of a poll of an image record whose job failed or was cancelled
SelectWritesFailure(s) ==
  /\ sel[s].pc = "updWrite"
  /\ ~sel[s].isVideo
  /\ sel'[s].pc = "idle"
  /\ SelJobState(s) \in RemoteFailures

RefreshWritesFailure ==
  /\ ref.pc = "updWrite"
  /\ ~ref.list[ref.idx].isVideo
  /\ ref' # ref
  /\ RefJobState \in RemoteFailures

\* the state name without its JOB_STATE_ prefix, in lower case
LowerCasedReason(state) ==
  IF state = "JOB_STATE_CANCELLED" THEN "cancelled" ELSE "failed"

\* C12 as stated: when a poll of a submitted image record returns
\* JOB_STATE_FAILED or JOB_STATE_CANCELLED, the record becomes failed with error
\* equal to the lower-cased reason; for JOB_STATE_CANCELLED error = "cancelled".
C12_ErrorIsReason ==
  [][/\ \A s \in Selects : SelectWritesFailure(s) =>
          /\ store'[SelKey(s)].status = "failed"
          /\ store'[SelKey(s)].error = LowerCasedReason(SelJobState(s))
     /\ RefreshWritesFailure =>
          /\ store'[RefreshKey(ref)].status = "failed"
          /\ store'[RefreshKey(ref)].error = LowerCasedReason(RefJobState)]_vars

\* C12 amended: when a poll of a submitted image record returns
\* JOB_STATE_FAILED or JOB_STATE_CANCELLED, the record becomes failed with error
\* equal to "Job " followed by the lower-cased reason: "Job failed" or
\* "Job cancelled"; it gets no result and no completedAt.
C12_ErrorIsJobReason ==
  [][/\ \A s \in Selects : SelectWritesFailure(s) =>
          /\ store'[SelKey(s)].status = "failed"
          /\ store'[SelKey(s)].error = "Job " \o LowerCasedReason(SelJobState(s))
          /\ ~Has(store'[SelKey(s)], "resultImages")
          /\ ~Has(store'[SelKey(s)], "completedAt")
     /\ RefreshWritesFailure =>
          /\ store'[RefreshKey(ref)].status = "failed"
          /\ store'[RefreshKey(ref)].error = "Job " \o LowerCasedReason(RefJobState)
          /\ ~Has(store'[RefreshKey(ref)], "resultImages")
          /\ ~Has(store'[RefreshKey(ref)], "completedAt")]_vars

\* a record whose job was cancelled is stored as failed with "Job cancelled",
\* and another whose job failed is stored with "Job failed"
C12_Witness ==
  \E i, j \in Ids :
    /\ BatchState(remote[i]) = "JOB_STATE_CANCELLED"
    /\ BatchState(remote[j]) = "JOB_STATE_FAILED"
    /\ getKey("queue", i) \in DOMAIN store /\ getKey("queue", j) \in DOMAIN store
    /\ store[getKey("queue", i)].status = "failed"
    /\ store[getKey("queue", i)].error = "Job cancelled"
    /\ store[getKey("queue", j)].status = "failed"
    /\ store[getKey("queue", j)].error = "Job failed"

\* the status query of a refresh resolves for a video entry in status submitted
\* and finds the operation still running
RefreshSeesRunning ==
  /\ ref.pc = "status"
  /\ ref.list[ref.idx].isVideo
  /\ ref.list[ref.idx].status = "submitted"
  /\ ref' # ref
  /\ pollErrors' = pollErrors
  /\ OperationStatus(remote'[JobOf(RefreshName(ref))]).state = "RUNNING"

\* C13: when a poll of a video record in status submitted reports the operation
\* as RUNNING, the record is persisted with status processing: the poll goes on
\* to an update of the record that carries status processing.
C13_RunningPersistsProcessing ==
  [][RefreshSeesRunning =>
       /\ ref'.pc = "updRead"
       /\ ref'.idx = ref.idx
       /\ Has(ref'.updates, "status")
       /\ ref'.updates.status = "processing"]_vars

\* what the code does instead: no record is ever stored, listed or about to be
\* written with status processing
C13_ProcessingNeverStored ==
  /\ \A k \in DOMAIN store : store[k].status # "processing"
  /\ \A n \in 1..Len(queuedRequests) : queuedRequests[n].status # "processing"
  /\ \A s \in Selects : Has(sel[s].updates, "status") => sel[s].updates.status # "processing"
  /\ Has(ref.updates, "status") => ref.updates.status # "processing"

\* the flow of handleRefreshAll is inside its loop
RefreshInLoop == ref.pc \in {"status", "result", "updRead", "updWrite"}

\* the entries of the list of the running refresh that are polled: not terminal,
\* not pending, with a remote identifier
RefreshEligible(k) ==
  NonTerminalWithRemoteId(ref.list[k].isVideo, ref.list[k])

\* while a refresh runs: every eligible entry up to the current one got one status
\* query, every other entry none; the reload starts only past the last entry
RefreshPollsOnceEach ==
  ref.pc # "idle" =>
    /\ DOMAIN ref.polls = 1..Len(ref.list)
    /\ \A k \in 1..Len(ref.list) :
         ref.polls[k] = IF k <= ref.idx /\ RefreshEligible(k) THEN 1 ELSE 0
    /\ RefreshInLoop => ref.idx \in 1..Len(ref.list) /\ RefreshEligible(ref.idx)
    /\ ref.pc \in {"loadImages", "loadVideos"} => ref.idx = Len(ref.list) + 1
    /\ isRefreshing

\* the refresh at the next entry it polls, or past the last entry with the reload
\* of the list begun
NextEntry(f) ==
  LET later == {k \in (f.idx + 1)..Len(f.list) : RefreshPolls(f.list[k])}
      n == IF later = {} THEN Len(f.list) + 1
           ELSE CHOOSE k \in later : \A j \in later : k <= j
  IN [pc |-> IF later = {} THEN "loadImages" ELSE "status",
      list |-> f.list, idx |-> n, images |-> <<>>, updates |-> NULL,
      existing |-> NULL,
      polls |-> [k \in 1..Len(f.list) |-> IF k = n THEN f.polls[k] + 1 ELSE f.polls[k]]]

\* the steps of a refresh: it takes the list in memory and keeps it; an answer of
\* the service that ends the job is persisted; a failure moves on to the next
\* entry; past the loop the two store reads follow and the list is set once
RefreshSteps ==
  /\ (ref.pc = "idle" /\ ref' # ref) => ref'.list = queuedRequests
  /\ (ref.pc # "idle" /\ ref'.pc # "idle") => ref'.list = ref.list
  /\ (RefreshInLoop /\ ref' # ref) =>
       /\ ref'.pc \in {"status", "result", "updRead", "updWrite", "loadImages"}
       /\ ref'.idx >= ref.idx
       /\ queuedRequests' = queuedRequests
  /\ (ref.pc = "status" /\ ref' # ref) =>
       /\ \/ ref'.pc = "result" /\ ref'.idx = ref.idx
          \/ ref'.pc = "updRead" /\ ref'.idx = ref.idx /\ ref'.updates.status = "failed"
          \/ ref' = NextEntry(ref)
       /\ store' = store
  /\ (ref.pc = "result" /\ ref' # ref) =>
       /\ \/ ref'.pc = "updRead" /\ ref'.idx = ref.idx
             /\ ref'.updates.status = "succeeded"
          \/ ref' = NextEntry(ref)
       /\ store' = store
  /\ (ref.pc = "updRead" /\ ref' # ref) =>
       /\ \/ ref'.pc = "updWrite" /\ ref'.idx = ref.idx /\ ref'.updates = ref.updates
          \/ ref' = NextEntry(ref)
       /\ store' = store
  /\ (ref.pc = "updWrite" /\ ref' # ref) =>
       /\ RefreshKey(ref) \in DOMAIN store'
       /\ store'[RefreshKey(ref)].status = ref.updates.status
       /\ ref' = NextEntry(ref)
  /\ (ref.pc = "loadImages" /\ ref' # ref) =>
       /\ ref'.pc = "loadVideos"
       /\ ref'.images = getAllQueuedRequests(store, "queue")
       /\ queuedRequests' = queuedRequests
  /\ (ref.pc = "loadVideos" /\ ref' # ref) =>
       /\ ref' = IdleRef
       /\ ~isRefreshing'
       /\ queuedRequests' =
            CombinedRequests(ref.images, getAllQueuedRequests(store, "video-queue"))

\* C14: refreshAll visits the records of the in-memory list one after another;
\* each non-terminal record with a remote identifier gets exactly one status
\* poll and its outcome is persisted; a failed poll or result fetch does not
\* abort the loop; terminal and pending records are not polled; after the last
\* record the list is reloaded from the store exactly once.
C14_BulkRefresh == []RefreshPollsOnceEach /\ [][RefreshSteps]_vars

\* a refresh over two entries whose first poll failed and whose second entry was
\* polled all the same, now reloading the list
C14_Witness ==
  /\ ref.pc = "loadVideos"
  /\ Len(ref.list) = 2
  /\ ref.polls = <<1, 1>>
  /\ RefreshKey([ref EXCEPT !.idx = 1]) \in pollErrors
  /\ clicks = 3

\* ------------------------------------------------------------- listings
NewestFirst(list) ==
  \A j, k \in 1..Len(list) : j < k => list[j].createdAt >= list[k].createdAt

KeysOf(ns) == {k \in DOMAIN store : TypeOfKey(k) = ns}

\* how often a record occurs in a list
Occurrences(list, r) == Cardinality({k \in 1..Len(list) : list[k] = r})

\* C15: getAllQueuedRequests / getAllVideoQueuedRequests return every stored
\* record of their namespace exactly once, ordered by createdAt descending, in
\* whatever order the records were saved or updated.
C15_NewestFirstListing ==
  \A ns \in Namespaces :
    LET list == getAllQueuedRequests(store, ns)
    IN /\ NewestFirst(list)
       /\ Len(list) = Cardinality(KeysOf(ns))
       /\ \A k \in KeysOf(ns) : Occurrences(list, store[k]) = 1

\* three image records whose createdAt follow neither the order of their keys nor
\* its reverse, one of them updated, and video records next to them
C15_Witness ==
  /\ KeysOf("queue") = {getKey("queue", id) : id \in 1..3}
  /\ store[getKey("queue", 1)].createdAt = 2
  /\ store[getKey("queue", 2)].createdAt = 3
  /\ store[getKey("queue", 3)].createdAt = 1
  /\ store[getKey("queue", 3)].status = "succeeded"

\* the step of loadQueuedRequests that sets the list
LoadSetsList(l) == loads[l].pc = "videos" /\ loads'[l].pc = "idle"

\* C16: the list set by loadQueuedRequests holds every image record read and
\* every stored video record exactly once, each tagged with isVideo, sorted by
\* createdAt descending across both kinds; with the store unchanged between the
\* two reads, that is the union of the stored records.
C16_QueueViewMerged ==
  [][\A l \in 1..MaxLoads : LoadSetsList(l) =>
       LET view == queuedRequests'
           images == loads[l].images
       IN /\ NewestFirst(view)
          /\ Len(view) = Len(images) + Cardinality(KeysOf("video-queue"))
          /\ \A k \in 1..Len(images) :
               Occurrences(view, Merge(images[k], [isVideo |-> FALSE])) = 1
          /\ \A k \in KeysOf("video-queue") :
               Occurrences(view, Merge(store[k], [isVideo |-> TRUE])) = 1
          /\ Len(images) = Cardinality(KeysOf("queue"))
               /\ (\A k \in 1..Len(images) : getKey("queue", images[k].id) \in DOMAIN store
                      /\ store[getKey("queue", images[k].id)] = images[k])
             => \A k \in DOMAIN store :
                  Occurrences(view, Merge(store[k], [isVideo |-> TypeOfKey(k) = "video-queue"])) = 1]_vars

\* the view of a store with both kinds, a video record between two image records
C16_Witness ==
  /\ Len(queuedRequests) = 3
  /\ ~queuedRequests[1].isVideo /\ queuedRequests[2].isVideo /\ ~queuedRequests[3].isVideo
  /\ queuedRequests[1].createdAt > queuedRequests[2].createdAt
  /\ queuedRequests[2].createdAt > queuedRequests[3].createdAt
  /\ queuedRequests[1].id > queuedRequests[3].id
  /\ Cardinality(DOMAIN store) = 3
  /\ \A k \in DOMAIN store :
       Occurrences(queuedRequests, Merge(store[k], [isVideo |-> TypeOfKey(k) = "video-queue"])) = 1

\* ---------------------------------------------------------- video modes
BothModes(r, source, frames) ==
  Has(r, source) /\ \E f \in frames : Has(r, f)

\* C17: under any interleaving of the start-frame, last-frame and source-video
\* upload handlers and the video queue submission, no video record is persisted
\* with both sourceVideo and a frame image, no start-video call is sent with both
\* a video and a frame, and a frame set after a source video leaves the composer
\* in extension mode with the frames cleared.
C17_VideoModesExclusive ==
  /\ \A k \in KeysOf("video-queue") :
       ~BothModes(store[k], "sourceVideo", {"startFrameImage", "lastFrameImage"})
  /\ \A i \in Ids : ~BothModes(sub[i].args, "video", {"image", "lastFrame"})
  /\ videoSourceVideo # Null => videoStartFrame = Null /\ videoLastFrame = Null

\* the part of it about the records that were persisted and submitted
C17_NoRecordWithBothModes ==
  \A i \in Ids :
    sub[i].pc = "done" /\ getKey("video-queue", i) \in DOMAIN store =>
      ~BothModes(store[getKey("video-queue", i)], "sourceVideo",
                 {"startFrameImage", "lastFrameImage"})

\* ------------------------------------------------------------- canvas loads
CameraReset(c) == c.canvasZoom = Zoom1 /\ c.canvasPan = <<0, 0>>

\* C18 as stated: after every loadImageToCanvas and every loadVideoToCanvas the
\* zoom is 1 and the pan (0,0), and the other media type is cleared.
C18_LoadResetsCamera ==
  [][/\ \A images \in ImageLists : CanvasLoadsImages(images) =>
          CameraReset(canvas') /\ canvas'.canvasVideo = Null
     /\ \A video \in VideoPayloads : CanvasLoadsVideo(video) =>
          /\ CameraReset(canvas')
          /\ canvas'.canvasImage = Null /\ canvas'.canvasImages = <<>>]_vars

\* C18 amended: after every loadImageToCanvas the zoom is 1, the pan (0,0) and
\* canvasVideo is null; after every loadVideoToCanvas canvasImage is null and
\* canvasImages is empty, and the zoom and the pan are what they were.
C18_LoadClearsOtherMedia ==
  [][/\ \A images \in ImageLists : CanvasLoadsImages(images) =>
          /\ CameraReset(canvas') /\ canvas'.canvasVideo = Null
          /\ canvas'.canvasImages = [k \in 1..Len(images) |-> ImageUrl(images[k])]
     /\ \A video \in VideoPayloads : CanvasLoadsVideo(video) =>
          /\ canvas'.canvasZoom = canvas.canvasZoom
          /\ canvas'.canvasPan = canvas.canvasPan
          /\ canvas'.canvasVideo = VideoUrl(video)
          /\ canvas'.canvasImage = Null /\ canvas'.canvasImages = <<>>]_vars

\* a video on the canvas with the camera moved away from its default
C18_Witness ==
  /\ canvas.canvasVideo # Null
  /\ canvas.canvasImage = Null
  /\ canvas.canvasZoom = 13
  /\ canvas.canvasPan = <<4, 0>>

\* ------------------------------------------------------------ durability
\* the row of the list that names key k
RowOf(k) ==
  {n \in 1..Len(queuedRequests) :
     getKey(Namespace(queuedRequests[n].isVideo), queuedRequests[n].id) = k}

\* C19: once saved, a queue record stays in the store, across reloads and runs
\* of clearOldCache, until the delete action for that id and kind is executed:
\* a key leaves the store only in the step of handleDeleteRequest on its row.
C19_OnlyDeleteRemoves ==
  [][\A k \in DOMAIN store :
       k \notin DOMAIN store' => \E n \in RowOf(k) : DeleteRequest(n)]_vars

\* after a reload that cut a submission short, a cleanup has removed an expired
\* asset while a queue record that is as old is still stored
C19_Witness ==
  /\ assets.cleared # {}
  /\ \E i \in Ids :
       /\ sub[i].pc = "lost"
       /\ SubKey(i) \in DOMAIN store
       /\ \E maxAge \in MaxAges : now - store[SubKey(i)].createdAt > maxAge

\* the record of a submission that a reload cut short is stored as pending
OrphanedPending(i) ==
  /\ sub[i].pc = "lost"
  /\ SubKey(i) \in DOMAIN store
  /\ store[SubKey(i)].status = "pending"

\* a reload between the save of record i and the answer to its submission
ReloadCutsSubmission(i) ==
  /\ sub[i].pc = "calling"
  /\ SubKey(i) \in DOMAIN store
  /\ sub'[i].pc = "lost"

\* a retry by either of the two handlers that act on a stored record: a
\* refresh pass that listed the orphaned record has moved it on when it ends, and
\* a select of it does not return at its read
RetriedByPanel ==
  /\ (ref.pc = "loadVideos" /\ ref'.pc = "idle") =>
       \A n \in 1..Len(ref.list) :
         ~(/\ ref.list[n].status = "pending"
           /\ OrphanedPending(ref.list[n].id)
           /\ SubKey(ref.list[n].id) =
                getKey(Namespace(ref.list[n].isVideo), ref.list[n].id))
  /\ \A s \in Selects :
       (/\ sel[s].pc = "read" /\ sel'[s] # sel[s]
        /\ sel[s].id \in Ids
        /\ OrphanedPending(sel[s].id)
        /\ SubKey(sel[s].id) = SelKey(s))
       => sel'[s].pc # "idle"

\* a refresh begun after the reload polls a record that was submitted before it
SubmittedResumed ==
  (ref.pc = "idle" /\ ref'.pc # "idle") =>
    \A n \in 1..Len(queuedRequests) :
      NonTerminalWithRemoteId(queuedRequests[n].isVideo, queuedRequests[n]) =>
        ref'.pc = "status" /\ ref'.idx <= n

\* C20: a reload between the pending save and the remote submission leaves the
\* record stored as pending; from there the user can discard it and can retry
\* it (an operation of the panel moves it on to submitted or failed); a record
\* already submitted at the reload is resumed by a later refresh.
C20_ReloadDurability ==
  [][/\ \A i \in Ids : ReloadCutsSubmission(i) => OrphanedPending(i)'
     /\ RetriedByPanel
     /\ SubmittedResumed]_vars

\* what the code does: the record of a cut submission stays pending in every step
\* that keeps it, whatever the user does; only its delete ends that
C20_OrphanStaysPending ==
  [][\A i \in Ids :
       OrphanedPending(i) =>
         \/ OrphanedPending(i)'
         \/ SubKey(i) \notin DOMAIN store' /\ \E n \in RowOf(SubKey(i)) : DeleteRequest(n)]_vars

\* the parts of C20 that hold: the record survives as pending, and a submitted
\* record is polled by the next refresh
C20_PendingSurvivesReload ==
  [][/\ \A i \in Ids : ReloadCutsSubmission(i) => OrphanedPending(i)'
     /\ SubmittedResumed]_vars

\* ------------------------------------------------------- variant counts
\* the variant counts the property gives a count for
Requested(v) == IF v.t = "number" /\ v.n >= 1 THEN v.n ELSE 1

\* C21: an image batch submission creates one job that holds one sub-request
\* per requested variant: variantCount identical sub-requests for an integer
\* variantCount >= 1, exactly one for an absent, zero, negative or non-numeric
\* variantCount; a video submission creates exactly one operation.
C21_OneSubRequestPerVariant ==
  /\ \A j \in 1..Len(batches) :
       IF batches[j].kind \in BatchKinds
       THEN /\ Len(batches[j].src) = Requested(batches[j].variantCount)
            /\ \A k \in 1..Len(batches[j].src) : batches[j].src[k] = batches[j].src[1]
       ELSE Len(batches[j].operations) = 1
  /\ variantCount >= 1

\* a job of three sub-requests next to a job asked for "many" variants
C21_Witness ==
  /\ Len(batches) = 2
  /\ batches[1].kind \in BatchKinds /\ batches[2].kind \in BatchKinds
  /\ batches[1].variantCount = JsNumber(3) /\ Len(batches[1].src) = 3
  /\ batches[2].variantCount = JsString("many") /\ Len(batches[2].src) = 1

\* ---------------------------------------------------------------- C22
\* the reference images a request carries / a record holds
ReferencesOf(r) == IF Has(r, "referenceImages") THEN r.referenceImages ELSE <<>>

\* a request of the queued path sent through the batch-edit call for a record
\* with a non-empty maskImage
MaskedBatchEdit(r) ==
  /\ r.call = "edit"
  /\ r.record.type = "edit"
  /\ Has(r.record, "maskImage")
  /\ r.record.maskImage # ""

\* img is the original image with n strokes drawn over it
IsMaskedReference(img, original) ==
  \E n \in 1..MaxStrokes : img = MaskedReferenceOf(original, [k \in 1..n |-> "stroke"])

\* C22: for a queued edit record with a non-empty maskImage, the reference images
\* sent to the batch-edit call are the rendered mask-overlay image followed by the
\* record's reference images in their order.
C22_OverlayLeadsReferences ==
  \A k \in 1..Len(requests) :
    MaskedBatchEdit(requests[k]) =>
      LET sent == ReferencesOf(requests[k].body)
      IN /\ Len(sent) = Len(ReferencesOf(requests[k].record)) + 1
         /\ IsMaskedReference(sent[1], requests[k].record.originalImage)
         /\ SubSeq(sent, 2, Len(sent)) = ReferencesOf(requests[k].record)

\* what the queued path sends instead: the record's reference images alone
C22_QueuedSendsRecordReferences ==
  \A k \in 1..Len(requests) :
    MaskedBatchEdit(requests[k]) =>
      ReferencesOf(requests[k].body) = ReferencesOf(requests[k].record)

\* the edit that is applied at once does put the overlay first
C22_InteractiveOverlayLeads ==
  \A k \in 1..Len(requests) :
    (requests[k].call = "editImage" /\ Has(requests[k].body, "maskImage")) =>
      IsMaskedReference(ReferencesOf(requests[k].body)[1], requests[k].body.originalImage)

\* a masked edit with two different reference images has been queued
C22_MaskedEditQueued ==
  \E k \in 1..Len(requests) :
    /\ MaskedBatchEdit(requests[k])
    /\ ReferencesOf(requests[k].record) = <<"A", "B">>

\* ---------------------------------------------------------------- C23
\* the kinds of record each namespace holds
KindsOf(ns) == IF ns = "queue" THEN {"generate", "edit"}
               ELSE {"video-generate", "video-extend"}

OtherNamespace(ns) == IF ns = "queue" THEN "video-queue" ELSE "queue"

\* a call of save, update or delete for id in namespace ns
StoreCall(ns, id) ==
  \/ \E prompt \in Prompts, t \in 1..MaxCreatedAt : StoreSave(ns, id, prompt, t)
  \/ StoreUpdate(ns, id, "succeeded")
  \/ StoreDelete(ns, id)

\* each listing holds the records under the keys of its namespace, and no other
ListsOwnKind ==
  \A ns \in Namespaces :
    LET listing == getAllQueuedRequests(store, ns)
    IN /\ Len(listing) = Cardinality(KeysOf(ns))
       /\ \A n \in 1..Len(listing) :
            /\ listing[n].type \in KindsOf(ns)
            /\ IdbGet(store, getKey(ns, listing[n].id)) = listing[n]

\* a call for an id in one namespace leaves the other namespace as it was
OtherNamespaceKept ==
  \A ns \in Namespaces, id \in StoredIds :
    StoreCall(ns, id) =>
      \A x \in StoredIds :
        IdbGet(store', getKey(OtherNamespace(ns), x))
          = IdbGet(store, getKey(OtherNamespace(ns), x))

\* C23: image records and video records live in separate namespaces: saving,
\* updating or deleting the image record with id X never creates, changes or
\* removes the video record with id X, and the other way round; each listing
\* returns only the records of its own kind.
C23_SeparateNamespaces == []ListsOwnKind /\ [][OtherNamespaceKept]_vars

\* the image record with id 1 was saved, updated and deleted while the video
\* record with id 1 is stored as it was saved
C23_Witness ==
  /\ getKey("queue", 1) \in deleted
  /\ getKey("queue", 1) \notin DOMAIN store
  /\ getKey("queue", 1) \in DOMAIN lastStatus
  /\ lastStatus[getKey("queue", 1)] = "succeeded"
  /\ getKey("video-queue", 1) \in DOMAIN store
  /\ store[getKey("video-queue", 1)].status = "pending"
  /\ Len(getAllQueuedRequests(store, "video-queue")) = 1
  /\ Len(getAllQueuedRequests(store, "queue")) = 0

\* ---------------------------------------------------------------- C24
\* a call of the remote job client is rejected
RemoteCallThrows ==
  \/ \E i \in Ids : SubmitThrows(i)
  \/ \E s \in Selects : SelectStatusThrows(s) \/ SelectResultThrows(s)
  \/ RefreshStatusThrows
  \/ RefreshResultThrows

\* no handler has ended in a rejection
NoHandlerRejected ==
  /\ \A i \in Ids : sub[i].pc # "rejected"
  /\ \A s \in Selects : sel[s].pc # "rejected"
  /\ ref.pc # "rejected"

\* the submission call of record i was rejected and its handler has returned
SubmissionRejected(i) == sub[i].pc = "done" /\ remote[i] = NULL

\* a rejected submission shows on the record, as status failed with the message
RejectionOnRecord ==
  \A i \in Ids :
    (SubmissionRejected(i) /\ SubKey(i) \in DOMAIN store) =>
      /\ store[SubKey(i)].status = "failed"
      /\ Has(store[SubKey(i)], "error")
      /\ store[SubKey(i)].error # ""

\* while the panel shows the refresh as running, handleRefreshAll is running
RefreshNotAbandoned == isRefreshing => ref.pc # "idle"

\* the rejected call changes no record, nothing on the canvas and nothing the
\* panel shows
RejectionChangesNothing ==
  RemoteCallThrows =>
    /\ store' = store
    /\ canvas' = canvas
    /\ panelVars' = panelVars

\* C24: an error of the remote job client never leaves handleQueueForBatch,
\* handleVideoQueueForBatch, handleSelectRequest or handleRefreshAll; the failure
\* shows only in the status and error of the record.
C24_RemoteErrorsContained ==
  /\ [](NoHandlerRejected /\ RejectionOnRecord /\ RefreshNotAbandoned)
  /\ [][RejectionChangesNothing]_vars

\* a submission was rejected and its record is failed; the poll of another record
\* was rejected as well, and both handlers have returned
C24_Witness ==
  \E i \in Ids :
    /\ SubmissionRejected(i)
    /\ SubKey(i) \in DOMAIN store
    /\ store[SubKey(i)].status = "failed"
    /\ \E k \in pollErrors : k # SubKey(i)
    /\ \A s \in Selects : sel[s].pc = "idle"
    /\ ref.pc = "idle"

\* ---------------------------------------------------------------- C25
\* the partial records the handlers are about to write
PendingUpdates ==
  {sub[i].updates : i \in Ids} \cup {sel[s].updates : s \in Selects} \cup {ref.updates}

\* C25 as stated: every record in a terminal state has completedAt set, the
\* failed ones as well as the succeeded ones.
C25_TerminalHasCompletedAt ==
  \A k \in DOMAIN store :
    store[k].status \in Terminal => Has(store[k], "completedAt")

\* C25: every record that is succeeded has completedAt set: the write that makes
\* a record succeeded sets completedAt; the write that makes it failed (by a
\* failed submission or by a remote-reported failure) sets status and error only.
C25_SucceededHasCompletedAt ==
  /\ \A k \in DOMAIN store :
       store[k].status = "succeeded" =>
         Has(store[k], "completedAt") /\ store[k].completedAt <= now
  /\ \A u \in PendingUpdates :
       /\ (Has(u, "status") /\ u.status = "succeeded") => Has(u, "completedAt")
       /\ (Has(u, "status") /\ u.status = "failed") => DOMAIN u = {"status", "error"}

\* one record is succeeded with its completedAt, another is failed without one
C25_Witness ==
  \E k, j \in DOMAIN store :
    /\ store[k].status = "succeeded"
    /\ Has(store[k], "completedAt")
    /\ store[j].status = "failed"
    /\ ~Has(store[j], "completedAt")

\* ---------------------------------------------------------------- C26
\* C26: in every reachable state uploadedImages and editReferenceImages each hold
\* at most 10 entries, however the file-upload handler interleaves with itself and
\* with the remove and clear actions.
C26_AtMostTenReferences ==
  /\ Len(uploadedImages) <= MaxReferenceImages
  /\ Len(editReferenceImages) <= MaxReferenceImages

\* the lists never grow past the limit by more than the handlers that wait
C26_OvershootBounded ==
  /\ Len(uploadedImages) <= MaxReferenceImages + MaxUploads - 1
  /\ Len(editReferenceImages) <= MaxReferenceImages + MaxUploads - 1

\* ---------------------------------------------------------------- C27
\* the id a key was made for
IdOfKey(k) == k[Len(k)]

\* what one poll of the record under key k persists, given the remote job as it is
PolledOnce(k) ==
  LET isVideo == TypeOfKey(k) = "video-queue"
      job == remote[IdOfKey(k)]
      status == StatusOutcome(isVideo, job)
  IN IF status.next = "update" THEN status.updates
     ELSE IF status.next = "result" /\ ResultOutcome(isVideo, job, now).next = "update"
     THEN ResultOutcome(isVideo, job, now).updates
     ELSE NULL

\* the status, the result and the error of a record
Outcome(r) ==
  [f \in (DOMAIN r) \cap {"status", "resultImages", "resultVideo", "error"} |-> r[f]]

\* a record a poll made terminal holds what one poll of its job persists
SameAsPolledOnce ==
  \A k \in DOMAIN store :
    (store[k].status \in Terminal /\ remote[IdOfKey(k)] # NULL) =>
      Outcome(store[k]) = Outcome(PolledOnce(k))

\* no write changes the outcome of a terminal record
TerminalOutcomeKept ==
  \A k \in (DOMAIN store) \cap (DOMAIN store') :
    store[k].status \in Terminal => Outcome(store'[k]) = Outcome(store[k])

SubmittedWithName(i) ==
  /\ sub[i].ns # ""
  /\ SubKey(i) \in DOMAIN store
  /\ store[SubKey(i)].status = "submitted"
  /\ TruthyStr(store[SubKey(i)], RemoteIdField(SubKey(i)))

\* record i is stored as succeeded or failed, or is not stored
Reconciled(i) ==
  \/ SubKey(i) \notin DOMAIN store
  \/ store[SubKey(i)].status \in Terminal

\* C28: if the remote job of a record reaches a final state, the status and result
\* calls succeed in the end and the user keeps refreshing, then every record that
\* is stored as submitted with a non-empty remote name and is not deleted is
\* in the end stored as succeeded or failed, also when it was submitted after the
\* panel last loaded its list.
C28_EventuallyReconciled == \A i \in Ids : SubmittedWithName(i) ~> Reconciled(i)

\* a record that is not in the list of the panel is stored as submitted
C28_Witness ==
  \E i \in Ids :
    /\ SubmittedWithName(i)
    /\ \A n \in 1..Len(queuedRequests) : queuedRequests[n].id # i
    /\ ref.pc = "idle"
    /\ \A l \in 1..MaxLoads : loads[l].pc = "idle"

\* ---------------------------------------------------------------- C29
\* the requests handleQueueForBatch has sent
QueuedRequestsSent == {k \in 1..Len(requests) : requests[k].call # "editImage"}

\* C29: the kind stored on an image record matches the remote call used for it: a
\* record of kind edit is submitted through the batch-edit call with its
\* originalImage, a record of kind generate through the batch-generate call.
C29_KindMatchesCall ==
  \A k \in QueuedRequestsSent :
    LET r == requests[k]
    IN /\ r.record.type = "edit" =>
            /\ r.call = "edit"
            /\ Has(r.record, "originalImage")
            /\ r.body.originalImage = r.record.originalImage
       /\ r.record.type = "generate" => r.call = "generate"

\* what holds instead: the call is batch-edit exactly for the records of kind edit
\* that have an originalImage, and batch-generate for every other record
C29_CallFollowsOriginalImage ==
  \A k \in QueuedRequestsSent :
    LET r == requests[k]
    IN /\ r.call = "edit" <=> (r.record.type = "edit" /\ Has(r.record, "originalImage"))
       /\ r.call = "edit" => r.body.originalImage = r.record.originalImage
       /\ r.call # "edit" => r.call = "generate" /\ ~Has(r.body, "originalImage")

\* ---------------------------------------------------------------- C30
\* a write to a stored record is the merge of one of the partial records in hand
\* into the record as it is stored: the fields the partial record names take its
\* values, every other field keeps the value it had
WritesAreMerges ==
  \A k \in (DOMAIN store) \cap (DOMAIN store') :
    store'[k] # store[k] =>
      /\ \E u \in PendingUpdates : u # NULL /\ store'[k] = Merge(store[k], u)
      /\ store'[k].createdAt = store[k].createdAt
      /\ store'[k].prompt = store[k].prompt

\* every record is stored under the key of its own id
IdMatchesKey == \A k \in DOMAIN store : Has(store[k], "id") /\ store[k].id = IdOfKey(k)

\* C30: update is a field-wise merge that keeps what it is not told to change:
\* after update(id, partial) on a stored record every field not named in partial
\* has its previous value; across the queue operations the id of a stored record
\* is the id of its key, and its createdAt and prompt never change.
C30_UpdateMerges == []IdMatchesKey /\ [][WritesAreMerges]_vars

\* a record updated twice, to submitted and then to succeeded, holds the fields of
\* both updates next to those it was saved with
C30_Witness ==
  \E k \in DOMAIN store :
    /\ store[k].status = "succeeded"
    /\ Has(store[k], "submittedAt")
    /\ Has(store[k], "completedAt")
    /\ Has(store[k], "originalImage")
    /\ store[k].prompt = "p"
    /\ store[k].createdAt > 0

\* ---------------------------------------------------------------- C31
\* a step of handleRefreshAll: the click, or a continuation after one of its awaits
RefreshTakesStep == RefreshAll \/ RefreshStep

\* a step of handleRefreshAll leaves the canvas and the selection as they were
RefreshKeepsCanvas ==
  RefreshTakesStep => /\ canvas' = canvas
                      /\ selectedRequestId' = selectedRequestId

\* of the handlers of the panel only handleSelectRequest changes the canvas: a
\* step that changes it is a continuation of a select, or the user's upload
CanvasLoadedBySelect ==
  canvas' # canvas =>
    \/ \E s \in Selects : SelectRead(s) \/ SelectUpdateRead(s) \/ SelectUpdateWrite(s)
    \/ \E data \in UploadedFiles : FileUpload(data)

\* C31: bulk refresh has no canvas side effect: whatever the poll outcomes,
\* refreshAll leaves canvasImage, canvasImages, canvasVideo, zoom, pan and the
\* selected record id unchanged; only on-demand select loads the canvas.
C31_RefreshLeavesCanvas == [][RefreshKeepsCanvas /\ CanvasLoadedBySelect]_vars

\* a refresh has fetched and stored the result of a record that no select has
\* touched, and the canvas is still empty
C31_Witness ==
  /\ canvas = InitialCanvas
  /\ selectedRequestId = NoId
  /\ deleted = {}
  /\ ref.pc = "loadImages"
  /\ \E k \in DOMAIN store :
       /\ store[k].status = "succeeded"
       /\ \/ Has(store[k], "resultImages") /\ Len(store[k].resultImages) > 0
          \/ Has(store[k], "resultVideo")

\* ---------------------------------------------------------------- C32
\* the panel shows the refresh as running exactly while handleRefreshAll runs
BusyWhileRunning == isRefreshing <=> ref.pc # "idle"

\* C32: every bulk refresh terminates and clears its busy flag: isRefreshing is
\* true only while a refreshAll is running, and each started refreshAll
\* eventually sets isRefreshing back to false whatever remote calls fail, so the
\* refresh button cannot stay disabled forever.
C32_RefreshTerminates == []BusyWhileRunning /\ (isRefreshing ~> ~isRefreshing)

\* a refresh whose status query was rejected has ended, and the button is
\* enabled again
C32_Witness ==
  /\ ~isRefreshing
  /\ ref.pc = "idle"
  /\ pollErrors # {}

\* ---------------------------------------------------------------- C33
\* no handleSelectRequest is at an await
SelectsFinished == \A s \in DOMAIN sel : sel[s].pc = "idle"

\* the record the panel shows as selected, when it is stored with a result
SelectedResult ==
  LET image == getQueuedRequest(store, "queue", selectedRequestId)
      video == getQueuedRequest(store, "video-queue", selectedRequestId)
  IN IF video # NULL /\ SelectLoadsCached(TRUE, video)
     THEN loadVideoToCanvas(InitialCanvas, video.resultVideo)
     ELSE IF image # NULL /\ SelectLoadsCached(FALSE, image)
     THEN loadImageToCanvas(InitialCanvas, image.resultImages)
     ELSE NULL

\* C33: selection and canvas agree after overlapping selects: when the user
\* selects record A (its poll is still in flight) and then selects record B, then
\* once all in-flight select flows have finished the canvas shows the result of
\* B, the currently selected record, and is not overwritten by A's late result.
C33_CanvasShowsSelected ==
  (SelectsFinished /\ selectedRequestId # NoId /\ SelectedResult # NULL) =>
    /\ canvas.canvasImage = SelectedResult.canvasImage
    /\ canvas.canvasImages = SelectedResult.canvasImages
    /\ canvas.canvasVideo = SelectedResult.canvasVideo

\* ---------------------------------------------------------------- C34
\* generate was called and its busy state has not been released
GenerateCalled == videoHook.mutation = "pending"

\* the busy state is released: no operation name, neither flag set
BusyReleased ==
  /\ videoHook.operationName = Null
  /\ ~videoHook.isGenerating
  /\ ~HookIsGenerating(videoHook)

\* C34: direct video generation always releases its busy state: after generate
\* is called, in every run the operation name is eventually cleared and
\* isGenerating eventually returns to false, whether the start call fails, the
\* operation ends FAILED, the operation ends SUCCEEDED and the result is fetched,
\* or the result fetch itself fails.
C34_BusyReleasedInTheEnd == GenerateCalled ~> BusyReleased

\* ---------------------------------------------------------------- C35
\* the answers one of the two endpoints has given
AnswersOf(endpoint) ==
  {answers[k] : k \in {n \in 1..Len(answers) : answers[n].endpoint = endpoint}}

CanvasImageConsistent ==
  IF Len(canvas.canvasImages) = 0
  THEN canvas.canvasImage = Null /\ canvas.canvasImageIndex = 0
  ELSE /\ canvas.canvasImageIndex \in 0..(Len(canvas.canvasImages) - 1)
       /\ canvas.canvasImage = canvas.canvasImages[canvas.canvasImageIndex + 1]

\* setCanvasImageIndex(i) selects the index i modulo the length, and changes
\* nothing when there is no image
IndexSelectsModulo ==
  \A index \in (0 - MaxIndex)..MaxIndex :
    SetImageIndex(index) =>
      IF Len(canvas.canvasImages) = 0 THEN canvas' = canvas
      ELSE /\ canvas'.canvasImageIndex = index % Len(canvas.canvasImages)
           /\ canvas'.canvasImages = canvas.canvasImages

\* C36: canvas image state stays consistent under any sequence of
\* setCanvasImage, setCanvasImages and setCanvasImageIndex (with integer
\* arguments): if canvasImages is empty then canvasImage is null and
\* canvasImageIndex is 0, otherwise 0 <= canvasImageIndex < length(canvasImages)
\* and canvasImage = canvasImages[canvasImageIndex]; setCanvasImageIndex(i) on a
\* non-empty list selects index i modulo the length (also for negative i) and is
\* a no-op on an empty list.
C36_CanvasImageConsistent == []CanvasImageConsistent /\ [][IndexSelectsModulo]_vars

\* of three images the last is shown, as after setCanvasImageIndex(-1)
C36_Witness ==
  /\ Len(canvas.canvasImages) = 3
  /\ canvas.canvasImageIndex = 2
  /\ canvas.canvasImage = canvas.canvasImages[3]
  /\ canvas.canvasImages[3] # canvas.canvasImages[1]

\* ---------------------------------------------------------------- C37
\* C37: flash model implies 1K tier: under any sequence of the composer's model
\* change, resolution-tier change and clear-session actions, whenever
\* selectedModel is gemini-2.5-flash-image the resolutionTier is 1K.
C37_FlashImpliesOneK == selectedModel = FlashModel => resolutionTier = "1K"

\* the flash model was chosen in a session that is being worked on
C37_Witness ==
  /\ selectedModel = FlashModel
  /\ resolutionTier = "1K"
  /\ variantCount > 1

====
